---- MODULE Spec2Model ----
(***************************************************************************)
(* Watch-party server (src/server/index.js): the in-memory room store and  *)
(* the socket.io handlers that mutate it.  One action per handler; every   *)
(* handler runs to completion (Node's single-threaded event loop).         *)
(*                                                                         *)
(* Units and encodings                                                     *)
(*  - positions (playedSeconds, drift) are integers in tenths of a second; *)
(*  - averageDrift is an exact rational <<numerator, denominator>>;        *)
(*  - user ids stand for the non-empty, non-integer-like strings the       *)
(*    client generates (Math.random().toString(36)), so the key order of   *)
(*    the users object is insertion order: the roster is a sequence;       *)
(*  - room ids and socket ids are disjoint name spaces;                    *)
(*  - Date.now() is read once per handler and never runs backwards.        *)
(*                                                                         *)
(* Client synchronization controller (the VideoPlayer component,           *)
(* src/unnamed/part_003, fed by the useRoom hook, src/unnamed/part_000):   *)
(* one controller, one action per callback.  Its clock and its positions   *)
(* are in tenths of a second too; a state update and the effect it         *)
(* triggers are one step; seekTo moves the player at once; a setTimeout    *)
(* callback runs when its delay has passed, never earlier.                 *)
(***************************************************************************)
EXTENDS Integers, Sequences, FiniteSets, TLC

\* ---------------------------------------------------------------- bounds
MaxSockets   == 3
MaxUsers     == 2
MaxRooms     == 1
MaxClock     == 2
MaxReports   == 1
MaxChat      == 1
ChatOverflow == 2
ReportBudget == 3
ClientEpoch  == 100
MaxSyncTime  == 8
MaxCoolTime  == 14
MaxCastTime  == 20

\* ------------------------------------------------------ program constants
MaxMessages          == 100
DriftThresholdTenths == 3
GoodBelowTenths      == 5
FairBelowTenths      == 15
SyncThresholdTenths     == 3
HugeDriftTenths         == 20
LatencyCapTenths        == 20
CooldownTenths          == 10
BroadcastIntervalTenths == 15

Sockets == 1..MaxSockets
UserIds == 1..MaxUsers
RoomIds == 1..MaxRooms

VideoStateFields ==
  {"isPlaying", "playedSeconds", "url", "lastUpdated", "updatedBy",
   "serverTimestamp", "isBuffering", "playbackRate"}

\* The video-state patches clients are taken to send.  updatedBy 0 is the
\* empty string of the initial state.
Patches ==
  { [isPlaying |-> TRUE, updatedBy |-> 1],
    [isPlaying |-> FALSE, playedSeconds |-> 10, updatedBy |-> 2],
    [playedSeconds |-> 4],
    [serverTimestamp |-> 0, lastUpdated |-> 7, updatedBy |-> 1],
    [volume |-> 11] }

ReportPositions == {0, 3, 4}

SignalTypes == {"offer", "answer", "ice-candidate"}

\* ---------------------------------------------------------------- helpers
Range(f) == {f[i] : i \in DOMAIN f}

Abs(x) == IF x < 0 THEN -x ELSE x

Without(seq, x) == LET Keep(y) == y # x IN SelectSeq(seq, Keep)

Min(a, b) == IF a < b THEN a ELSE b

RECURSIVE GCD(_, _)
GCD(a, b) == IF b = 0 THEN a ELSE GCD(b, a % b)

\* exact rationals <<n, d>>, d > 0, in lowest terms
Rat(n, d) == LET g == GCD(n, d) IN IF n = 0 THEN <<0, 1>> ELSE <<n \div g, d \div g>>
RatTimesInt(q, k) == Rat(q[1] * k, q[2])
RatPlusInt(q, k) == Rat(q[1] + k * q[2], q[2])
RatOverInt(q, k) == Rat(q[1], q[2] * k)
RatLessInt(q, k) == q[1] < k * q[2]

\* arrivals: per room, the ids of its members in the order of their first join
VARIABLES rooms, sockets, now, crashed, out, lastEvent, reported, chatTotal,
          arrivals

\* the controller: its state, its clock, what its last callback did (emitted
\* events and seekTo calls), the callback that ran last, and what has
\* happened so far
VARIABLES ctl, cnow, cout, cEvent, chist

serverVars == <<rooms, sockets, now, crashed, out, lastEvent, reported, chatTotal,
                arrivals>>

clientVars == <<ctl, cnow, cout, cEvent, chist>>

\* the peer managers, the signals in flight between them, the manager step
\* that ran last, and every (from, to) an offer was ever sent for
VARIABLES pm, wire, pmEvent, offers

peerVars == <<pm, wire, pmEvent, offers>>

vars == <<rooms, sockets, now, crashed, out, lastEvent, reported, chatTotal, arrivals,
          ctl, cnow, cout, cEvent, chist, pm, wire, pmEvent, offers>>

\* --------------------------------------------------------------- the store
UserIdsOf(users) == {users[i].id : i \in 1..Len(users)}

HasUser(users, u) == u \in UserIdsOf(users)

IndexOfUser(users, u) == CHOOSE i \in 1..Len(users) : users[i].id = u

Username(u) == u

\* { id: userId, username, socketId: socket.id }
NewUser(u, s) == [id |-> u, username |-> Username(u), socketId |-> s]

\* The ids of UserIds stand for strings such as "k3f9x1" that are no
\* canonical array index; the ids of NumericIds stand for their decimal
\* string ("7"), which a client's base-36 id can be and which join-room
\* accepts like any other id.
NumericIds == {7}

\* whether the property key of user id u is an array index
IsArrayIndex(u) == u \in NumericIds

\* rooms[roomId].users[userId] = {...}: an existing key keeps its place in
\* the object and gets a fresh value.  The roster is kept in the order in
\* which Object.keys and Object.values enumerate it: the array-index keys
\* in ascending numeric order, then the other keys in insertion order.
UpsertUser(users, u, s) ==
  IF HasUser(users, u)
    THEN [i \in 1..Len(users) |-> IF users[i].id = u THEN NewUser(u, s) ELSE users[i]]
  ELSE IF IsArrayIndex(u)
    THEN LET k == Cardinality({i \in 1..Len(users) :
                                 IsArrayIndex(users[i].id) /\ users[i].id < u})
         IN  SubSeq(users, 1, k) \o <<NewUser(u, s)>> \o SubSeq(users, k + 1, Len(users))
  ELSE Append(users, NewUser(u, s))

InitialVideoState(t) ==
  [isPlaying |-> FALSE, playedSeconds |-> 0, url |-> 0, lastUpdated |-> t,
   updatedBy |-> 0, serverTimestamp |-> t, isBuffering |-> FALSE,
   playbackRate |-> 10]

\* a plausible slip: the room is created without a host
NewRoomHost_Unset(u) == 0

\* hostId: userId, // First user becomes host
NewRoomHost(u) == u

NewRoom(u, t) ==
  [users |-> <<>>, hostId |-> NewRoomHost(u), videoState |-> InitialVideoState(t),
   messages |-> <<>>, createdAt |-> t, syncCheckpoint |-> t]

\* sockets currently in the socket.io room named roomId
InRoom(sk, r) == {s \in Sockets : sk[s].status = "open" /\ r \in Range(sk[s].rooms)}

\* io.to(roomId).emit / socket.to(roomId).emit / io.to(socketId).emit / socket.emit
ToRoom(sk, r, ev, payload) ==
  [event |-> ev, scope |-> "room", room |-> r, rcpt |-> InRoom(sk, r), payload |-> payload]
ToOthers(sk, r, s, ev, payload) ==
  [event |-> ev, scope |-> "others", room |-> r, rcpt |-> InRoom(sk, r) \ {s}, payload |-> payload]
ToSocket(sk, r, s, ev, payload) ==
  [event |-> ev, scope |-> "socket", room |-> r, to |-> s,
   rcpt |-> {x \in {s} : sk[x].status = "open"}, payload |-> payload]

\* videoState of the useRoom hook before any state has arrived
NoState == [null |-> TRUE]

InitialController ==
  [videoState |-> NoState, hostId |-> 0, url |-> 0, isReady |-> FALSE,
   localBuffering |-> FALSE, isSeeking |-> FALSE, lastBroadcastTime |-> 0,
   pos |-> 0, timers |-> {}, isBuffering |-> FALSE]

\* the participants of the call: the ids "10", "2" and "3" as digit codes
PeerIds == {<<1, 0>>, <<2>>, <<3>>}

\* a useWebRTC hook after its first render: the local stream, the tracked
\* connections, the peers with a remoteStreams and a connectionStates entry,
\* the reconnectTimeouts table (timers), the live reconnect timers per peer
\* (armed), the reconnects in their 500 ms wait (waits), the page
\* visibility, the peers whose remoteStreams change has the visibility
\* effect due to run again (rerun), the remoteStreams that effect last saw
\* (shown), the resume sweep in its 1 s wait with the remoteStreams it
\* captured (resuming), and whether the component is mounted
NotResuming == [on |-> FALSE, recorded |-> {}]

InitialPeerManager ==
  [stream |-> FALSE, pcs |-> <<>>, remote |-> {}, connStates |-> {},
   timers |-> {}, armed |-> [p \in PeerIds |-> 0], waits |-> {},
   visible |-> TRUE, rerun |-> {}, shown |-> {}, resuming |-> NotResuming,
   mounted |-> TRUE]

Init ==
  /\ rooms = <<>>
  /\ sockets = [s \in Sockets |-> [status |-> "new", rooms |-> <<>>]]
  /\ now = 0
  /\ crashed = FALSE
  /\ out = <<>>
  /\ lastEvent = [type |-> "init"]
  /\ reported = [r \in RoomIds |-> [u \in UserIds |-> [sum |-> 0, k |-> 0]]]
  /\ chatTotal = [r \in RoomIds |-> 0]
  /\ arrivals = [r \in RoomIds |-> <<>>]
  /\ ctl = InitialController
  /\ cnow = ClientEpoch
  /\ cout = <<>>
  /\ cEvent = [type |-> "init", effectRan |-> FALSE, currentTime |-> 0,
               at |-> ClientEpoch, buffering |-> FALSE]
  /\ chist = [lastSeekAt |-> -1, lastPeriodicAt |-> -1, prevPeriodicAt |-> -1]
  /\ pm = [u \in PeerIds |-> InitialPeerManager]
  /\ wire = {}
  /\ offers = {}
  /\ pmEvent = [type |-> "init"]

\* Date.now() as read by the handler that runs in a step is some t in
\* ClockReadings
ClockReadings == now..Min(now + 1, MaxClock)

\* io.on('connection')
Connection(s) ==
  /\ ~crashed
  /\ UNCHANGED <<clientVars, peerVars>>
  /\ sockets[s].status = "new"
  /\ sockets' = [sockets EXCEPT ![s].status = "open"]
  /\ out' = <<>>
  /\ lastEvent' = [type |-> "connection", socket |-> s]
  /\ UNCHANGED <<rooms, now, crashed, reported, chatTotal, arrivals>>

\* a plausible slip: every join makes the joiner host
RoomAfterJoin_Rehost(rms, r, u, s, t) ==
  LET base == IF r \notin DOMAIN rms THEN NewRoom(u, t) ELSE rms[r]
  IN [base EXCEPT !.users = UpsertUser(@, u, s), !.hostId = u]

\* if (!rooms[roomId]) rooms[roomId] = {...}; rooms[roomId].users[userId] = {...}
RoomAfterJoin(rms, r, u, s, t) ==
  LET base == IF r \notin DOMAIN rms THEN NewRoom(u, t) ELSE rms[r]
  IN [base EXCEPT !.users = UpsertUser(@, u, s)]

\* socket.on('join-room')
JoinRoom(s, r, u, t) ==
  /\ ~crashed
  /\ UNCHANGED <<clientVars, peerVars>>
  /\ sockets[s].status = "open"
  /\ t \in ClockReadings
  /\   LET sk == [sockets EXCEPT ![s].rooms =
                    IF r \in Range(@) THEN @ ELSE Append(@, r)]
           created == r \notin DOMAIN rooms
           room == RoomAfterJoin(rooms, r, u, s, t)
           roster == room.users
       IN /\ now' = t
          /\ sockets' = sk
          /\ rooms' = [x \in DOMAIN rooms \cup {r} |-> IF x = r THEN room ELSE rooms[x]]
          /\ out' = <<ToRoom(sk, r, "update-users", roster),
                      ToSocket(sk, r, s, "sync-state",
                               [videoState |-> room.videoState, messages |-> room.messages,
                                users |-> roster, hostId |-> room.hostId])>>
                    \o (IF room.hostId = u
                          THEN <<ToSocket(sk, r, s, "host-assigned", [isHost |-> TRUE])>>
                          ELSE <<>>)
                    \o <<ToOthers(sk, r, s, "user-connected", u)>>
          /\ lastEvent' = [type |-> "join-room", socket |-> s, room |-> r, userId |-> u,
                           created |-> created, rejoin |-> (~created /\ HasUser(rooms[r].users, u))]
          /\ chatTotal' = IF created THEN [chatTotal EXCEPT ![r] = 0] ELSE chatTotal
          /\ arrivals' = [arrivals EXCEPT ![r] =
                            IF created THEN <<u>>
                            ELSE IF HasUser(rooms[r].users, u) THEN @
                            ELSE Append(@, u)]
          /\ UNCHANGED <<crashed, reported>>

\* plausible slips: the patch is spread after the server's stamps; a patched
\* position is added to the stored one
MergeVideoState_PatchLast(stored, patch, t) ==
  [k \in DOMAIN stored \cup DOMAIN patch \cup {"lastUpdated", "serverTimestamp"} |->
     IF k \in DOMAIN patch THEN patch[k]
     ELSE IF k \in {"lastUpdated", "serverTimestamp"} THEN t
     ELSE stored[k]]
MergeVideoState_Additive(stored, patch, t) ==
  [k \in DOMAIN stored \cup DOMAIN patch \cup {"lastUpdated", "serverTimestamp"} |->
     IF k \in {"lastUpdated", "serverTimestamp"} THEN t
     ELSE IF k = "playedSeconds" /\ k \in DOMAIN patch /\ k \in DOMAIN stored
       THEN stored[k] + patch[k]
     ELSE IF k \in DOMAIN patch THEN patch[k]
     ELSE stored[k]]
MergeVideoState_StoredLast(stored, patch, t) ==
  [k \in DOMAIN stored \cup DOMAIN patch \cup {"lastUpdated", "serverTimestamp"} |->
     IF k \in {"lastUpdated", "serverTimestamp"} THEN t
     ELSE IF k \in DOMAIN stored THEN stored[k]
     ELSE patch[k]]

\* { ...stored, ...videoState, lastUpdated: now, serverTimestamp: now }
MergeVideoState(stored, patch, t) ==
  [k \in DOMAIN stored \cup DOMAIN patch \cup {"lastUpdated", "serverTimestamp"} |->
     IF k \in {"lastUpdated", "serverTimestamp"} THEN t
     ELSE IF k \in DOMAIN patch THEN patch[k]
     ELSE stored[k]]

\* socket.on('video-state')
HandleVideoState(s, r, p, t) ==
  /\ ~crashed
  /\ sockets[s].status = "open"
  /\ t \in ClockReadings
  /\   /\ now' = t
       /\ IF r \in DOMAIN rooms
            THEN LET vs == MergeVideoState(rooms[r].videoState, p, t)
                 IN /\ rooms' = [rooms EXCEPT ![r].videoState = vs]
                    /\ out' = <<ToRoom(sockets, r, "video-state", vs)>>
            ELSE /\ rooms' = rooms
                 /\ out' = <<>>
       /\ lastEvent' = [type |-> "video-state", socket |-> s, room |-> r, videoState |-> p,
                        at |-> t, accepted |-> (r \in DOMAIN rooms),
                        repeated |-> (/\ lastEvent.type = "video-state"
                                      /\ lastEvent.room = r
                                      /\ lastEvent.videoState = p
                                      /\ r \in DOMAIN rooms)]
  /\ UNCHANGED <<sockets, crashed, reported, chatTotal, arrivals>>

\* the handler run for an event of a client outside the model
VideoState(s, r, p, t) ==
  /\ UNCHANGED <<clientVars, peerVars>>
  /\ HandleVideoState(s, r, p, t)

\* averageDrift < 0.5 good, < 1.5 fair, else poor
QualityLevel(avg) ==
  IF RatLessInt(avg, GoodBelowTenths) THEN "good"
  ELSE IF RatLessInt(avg, FairBelowTenths) THEN "fair"
  ELSE "poor"

FreshQuality(t) ==
  [lastReportTime |-> t, averageDrift |-> <<0, 1>>, reportCount |-> 0, quality |-> "good"]

\* quality.averageDrift = ((quality.averageDrift * (quality.reportCount - 1)) + drift) / quality.reportCount
CumulativeAverage(avg, count, drift) ==
  RatOverInt(RatPlusInt(RatTimesInt(avg, count - 1), drift), count)

\* the user record after lines 215-236
UpdateQuality(usr, drift, t) ==
  LET q0 == IF "connectionQuality" \in DOMAIN usr THEN usr.connectionQuality ELSE FreshQuality(t)
      cnt == q0.reportCount + 1
      avg == CumulativeAverage(q0.averageDrift, cnt, drift)
      q1 == [lastReportTime |-> t, averageDrift |-> avg, reportCount |-> cnt,
             quality |-> QualityLevel(avg)]
  IN [k \in DOMAIN usr \cup {"connectionQuality"} |->
        IF k = "connectionQuality" THEN q1 ELSE usr[k]]

\* a plausible slip: >= for >
NeedsCorrection_AtThreshold(drift, isPlaying, isBuffering) ==
  drift >= DriftThresholdTenths /\ isPlaying /\ ~isBuffering

\* drift > 0.3 && serverState.isPlaying && !isBuffering
NeedsCorrection(drift, isPlaying, isBuffering) ==
  drift > DriftThresholdTenths /\ isPlaying /\ ~isBuffering

\* io.to(targetSocketId): the endpoint recorded for the reporting user
CorrectionTarget(usr) == usr.socketId

\* socket.on('position-report'); a report naming a user that is not in the
\* roster reads .connectionQuality of undefined: the TypeError is uncaught
\* and the process dies.
PositionReport(s, r, u, pos, buf, t) ==
  /\ ~crashed
  /\ UNCHANGED <<clientVars, peerVars>>
  /\ sockets[s].status = "open"
  /\ t \in ClockReadings
  /\   /\ now' = t
       /\ IF r \notin DOMAIN rooms
            THEN /\ out' = <<>>
                 /\ UNCHANGED <<rooms, crashed, reported>>
            ELSE IF ~HasUser(rooms[r].users, u)
            THEN /\ crashed' = TRUE
                 /\ out' = <<>>
                 /\ UNCHANGED <<rooms, reported>>
            ELSE LET serverState == rooms[r].videoState
                     drift == Abs(pos - serverState.playedSeconds)
                     i == IndexOfUser(rooms[r].users, u)
                     usr == UpdateQuality(rooms[r].users[i], drift, t)
                 IN /\ rooms' = [rooms EXCEPT ![r].users[i] = usr]
                    /\ out' = IF NeedsCorrection(drift, serverState.isPlaying, buf)
                                THEN <<ToSocket(sockets, r, CorrectionTarget(usr), "sync-correction",
                                         [playedSeconds |-> serverState.playedSeconds,
                                          isPlaying |-> serverState.isPlaying,
                                          serverTimestamp |-> t, drift |-> drift,
                                          connectionQuality |-> usr.connectionQuality.quality])>>
                                ELSE <<>>
                    /\ reported' = [reported EXCEPT ![r][u] =
                                      [sum |-> @.sum + drift, k |-> @.k + 1]]
                    /\ UNCHANGED crashed
       /\ lastEvent' = [type |-> "position-report", socket |-> s, room |-> r, userId |-> u,
                        playedSeconds |-> pos, isBuffering |-> buf]
  /\ UNCHANGED <<sockets, chatTotal, arrivals>>

\* socket.on('buffer-state')
BufferState(s, r, u, buf) ==
  /\ ~crashed
  /\ UNCHANGED <<clientVars, peerVars>>
  /\ sockets[s].status = "open"
  /\ out' = IF r \in DOMAIN rooms /\ HasUser(rooms[r].users, u)
              THEN <<ToOthers(sockets, r, s, "user-buffer-state",
                              [userId |-> u, isBuffering |-> buf])>>
              ELSE <<>>
  /\ lastEvent' = [type |-> "buffer-state", socket |-> s, room |-> r, userId |-> u,
                   isBuffering |-> buf]
  /\ UNCHANGED <<rooms, sockets, now, crashed, reported, chatTotal, arrivals>>

\* a plausible slip: >= for >
AppendMessage_OffByOne(messages, msg) ==
  LET pushed == Append(messages, msg)
  IN IF Len(pushed) >= MaxMessages THEN Tail(pushed) ELSE pushed

\* messages.push(msg); if (messages.length > 100) messages.shift()
AppendMessage(messages, msg) ==
  LET pushed == Append(messages, msg)
  IN IF Len(pushed) > MaxMessages THEN Tail(pushed) ELSE pushed

\* socket.on('chat-message'); the body of the n-th message a room accepts
\* is n (a client-chosen unique id)
ChatMessage(s, r, t) ==
  /\ ~crashed
  /\ UNCHANGED <<clientVars, peerVars>>
  /\ sockets[s].status = "open"
  /\ t \in ClockReadings
  /\   /\ now' = t
       /\ IF r \in DOMAIN rooms
            THEN LET msg == [body |-> chatTotal[r] + 1, timestamp |-> t]
                 IN /\ rooms' = [rooms EXCEPT ![r].messages = AppendMessage(@, msg)]
                    /\ chatTotal' = [chatTotal EXCEPT ![r] = @ + 1]
                    /\ out' = <<ToRoom(sockets, r, "chat-message", msg)>>
            ELSE /\ out' = <<>>
                 /\ UNCHANGED <<rooms, chatTotal>>
  /\ lastEvent' = [type |-> "chat-message", socket |-> s, room |-> r]
  /\ UNCHANGED <<sockets, crashed, reported, arrivals>>

\* a plausible slip: the fallback the handler keeps in a comment is live, and
\* a signal for an absent user goes to the rest of the room
Signal_BroadcastFallback(s, r, to, from, ty) ==
  /\ ~crashed
  /\ UNCHANGED <<clientVars, peerVars>>
  /\ sockets[s].status = "open"
  /\ out' = IF r \in DOMAIN rooms /\ HasUser(rooms[r].users, to)
              THEN <<ToSocket(sockets, r, rooms[r].users[IndexOfUser(rooms[r].users, to)].socketId,
                              "signal", [from |-> from, type |-> ty])>>
              ELSE <<ToOthers(sockets, r, s, "signal", [from |-> from, type |-> ty])>>
  /\ lastEvent' = [type |-> "signal", socket |-> s, room |-> r, to |-> to,
                   from |-> from, signalType |-> ty]
  /\ UNCHANGED <<rooms, sockets, now, crashed, reported, chatTotal, arrivals>>

\* socket.on('signal')
Signal(s, r, to, from, ty) ==
  /\ ~crashed
  /\ UNCHANGED <<clientVars, peerVars>>
  /\ sockets[s].status = "open"
  /\ out' = IF r \in DOMAIN rooms /\ HasUser(rooms[r].users, to)
              THEN <<ToSocket(sockets, r, rooms[r].users[IndexOfUser(rooms[r].users, to)].socketId,
                              "signal", [from |-> from, type |-> ty])>>
              ELSE <<>>
  /\ lastEvent' = [type |-> "signal", socket |-> s, room |-> r, to |-> to,
                   from |-> from, signalType |-> ty]
  /\ UNCHANGED <<rooms, sockets, now, crashed, reported, chatTotal, arrivals>>

\* Object.keys(users).find(key => users[key].socketId === socket.id); 0 if none
FindUserBySocket(users, s) ==
  IF \E i \in 1..Len(users) : users[i].socketId = s
    THEN CHOOSE i \in 1..Len(users) :
           /\ users[i].socketId = s
           /\ \A j \in 1..(i - 1) : users[j].socketId # s
    ELSE 0

\* delete rooms[roomId].users[userId]
RemoveUser(users, i) == [j \in 1..(Len(users) - 1) |-> IF j < i THEN users[j] ELSE users[j + 1]]

\* plausible slips: the transfer is forgotten; the length test is off by one
HostTransfers_Never(wasHost, remaining) == FALSE
HostTransfers_OffByOne(wasHost, remaining) == wasHost /\ Len(remaining) > 1

\* wasHost && Object.keys(users).length > 0
HostTransfers(wasHost, remaining) == wasHost /\ Len(remaining) > 0

\* Object.keys(rooms[roomId].users)[0]
NextHost(remaining) == remaining[1]

\* a plausible slip: the empty room is never deleted
RoomIsEmpty_Never(remaining) == FALSE

\* Object.keys(rooms[roomId].users).length === 0
RoomIsEmpty(remaining) == Len(remaining) = 0

\* what one iteration of roomsJoined.forEach does to the room it visits
LeaveResult(room, s) ==
  LET i == FindUserBySocket(room.users, s)
      remaining == RemoveUser(room.users, i)
      wasHost == room.hostId = room.users[i].id
  IN IF i = 0 THEN [removed |-> FALSE, deleted |-> FALSE, room |-> room]
     ELSE [removed |-> TRUE, userId |-> room.users[i].id, wasHost |-> wasHost,
           deleted |-> RoomIsEmpty(remaining),
           room |-> [room EXCEPT !.users = remaining,
                                 !.hostId = IF HostTransfers(wasHost, remaining)
                                              THEN NextHost(remaining).id ELSE @]]

LeaveEmits(sk, r, room, s) ==
  LET res == LeaveResult(room, s)
      remaining == res.room.users
  IN IF ~res.removed THEN <<>>
     ELSE <<ToRoom(sk, r, "user-disconnected", res.userId),
            ToRoom(sk, r, "update-users", remaining)>>
          \o (IF HostTransfers(res.wasHost, remaining)
                THEN <<ToRoom(sk, r, "host-changed",
                              [hostId |-> NextHost(remaining).id,
                               hostUsername |-> NextHost(remaining).username]),
                       ToSocket(sk, r, NextHost(remaining).socketId, "host-assigned",
                                [isHost |-> TRUE])>>
                ELSE <<>>)

RECURSIVE EmitsOfLeaving(_, _, _)
EmitsOfLeaving(sk, joined, s) ==
  IF joined = <<>> THEN <<>>
  ELSE (IF Head(joined) \in DOMAIN rooms
          THEN LeaveEmits(sk, Head(joined), rooms[Head(joined)], s)
          ELSE <<>>)
       \o EmitsOfLeaving(sk, Tail(joined), s)

\* socket.on('disconnecting'), then the socket is gone
Disconnecting(s) ==
  /\ ~crashed
  /\ UNCHANGED <<clientVars, peerVars>>
  /\ sockets[s].status = "open"
  /\ LET joined == sockets[s].rooms
         visited == Range(joined) \cap DOMAIN rooms
         res == [r \in visited |-> LeaveResult(rooms[r], s)]
         deleted == {r \in visited : res[r].deleted}
         left == {r \in visited : res[r].removed}
     IN /\ rooms' = [r \in DOMAIN rooms \ deleted |->
                       IF r \in visited THEN res[r].room ELSE rooms[r]]
        /\ out' = EmitsOfLeaving(sockets, joined, s)
        /\ reported' = [r \in RoomIds |-> [u \in UserIds |->
                          IF r \in left /\ (res[r].userId = u \/ r \in deleted)
                            THEN [sum |-> 0, k |-> 0] ELSE reported[r][u]]]
        /\ lastEvent' = [type |-> "disconnecting", socket |-> s, joined |-> Range(joined),
                         left |-> left, deleted |-> deleted]
        /\ arrivals' = [r \in RoomIds |->
                          IF r \in deleted THEN <<>>
                          ELSE IF r \in left THEN Without(arrivals[r], res[r].userId)
                          ELSE arrivals[r]]
  /\ sockets' = [sockets EXCEPT ![s] = [status |-> "closed", rooms |-> <<>>]]
  /\ UNCHANGED <<now, crashed, chatTotal>>

\* ------------------------------------------------------------ the controller
\* the participant this controller belongs to, and another one
Me == 1

Other == 2

\* an authoritative state as the controller reads it: lastUpdated is never
\* read by the controller and is left out; updatedBy 0 is the empty author
\* of the store's initial state, url 0 is the empty string
ClientState(playing, seconds, stamp, author, u) ==
  [isPlaying |-> playing, playedSeconds |-> seconds, serverTimestamp |-> stamp,
   updatedBy |-> author, url |-> u]

\* the ReactPlayer element is rendered, so playerRef.current is set
Mounted(c) == (c.videoState # NoState /\ c.videoState.url # 0) \/ c.url # 0

IsHost(c) == c.hostId = Me

\* useRoom.updateVideoState: the patch goes out with updatedBy added
EmitVideoState(kind, patch) ==
  [event |-> "video-state", kind |-> kind,
   videoState |-> [updatedBy |-> Me] @@ patch]

SeekTo(kind, target) == [event |-> "seekTo", kind |-> kind, target |-> target]

\* the latency-compensated target of the sync effect
AdjustedTarget_Uncapped(vs, t) ==
  IF vs.isPlaying /\ vs.serverTimestamp # 0
    THEN vs.playedSeconds + (t - vs.serverTimestamp)
    ELSE vs.playedSeconds

AdjustedTarget(vs, t) ==
  IF vs.isPlaying /\ vs.serverTimestamp # 0
    THEN vs.playedSeconds + Min(t - vs.serverTimestamp, LatencyCapTenths)
    ELSE vs.playedSeconds

ShouldSync_OthersOnly(vs, currentTime) == vs.updatedBy # Me

ShouldSync(vs, currentTime) ==
  \/ vs.updatedBy # Me
  \/ Abs(currentTime - vs.playedSeconds) > HugeDriftTenths

SeekNeeded_AtThreshold(drift) == drift >= SyncThresholdTenths

SeekNeeded(drift) == drift > SyncThresholdTenths

\* the sync effect, run on controller state c at local time t: the state
\* after it, what it did, and whether it got past its first line
SyncEffect(c, t) ==
  IF ~c.isReady \/ ~Mounted(c) \/ c.videoState = NoState
    THEN [ctl |-> c, fx |-> <<>>, ran |-> FALSE, currentTime |-> c.pos]
    ELSE LET vs       == c.videoState
             target   == AdjustedTarget(vs, t)
             drift    == Abs(c.pos - target)
         IN  IF ShouldSync(vs, c.pos) /\ SeekNeeded(drift)
               THEN [ctl |-> [c EXCEPT !.isSeeking = TRUE, !.pos = target,
                                       !.timers = @ \cup {t + CooldownTenths}],
                     fx |-> <<SeekTo("corrective", target)>>,
                     ran |-> TRUE, currentTime |-> c.pos]
               ELSE [ctl |-> c, fx |-> <<>>, ran |-> TRUE, currentTime |-> c.pos]

\* the url effect: a url that came from somebody else fills the input box
UrlEffect(c) ==
  IF c.videoState # NoState /\ c.videoState.url # 0 /\ c.videoState.updatedBy # Me
    THEN [c EXCEPT !.url = c.videoState.url]
    ELSE c

\* what every step that stores a new videoState does after storing it
AfterNewState(c, type) ==
  LET res == SyncEffect(UrlEffect(c), cnow)
  IN  /\ ctl' = res.ctl
      /\ cout' = res.fx
      /\ cEvent' = [type |-> type, effectRan |-> res.ran,
                    currentTime |-> res.currentTime, at |-> cnow,
                    buffering |-> c.localBuffering]
      /\ chist' = IF res.fx # <<>> THEN [chist EXCEPT !.lastSeekAt = cnow]
                                   ELSE chist
      /\ UNCHANGED cnow

\* socket.on('video-state'): handleVideoState
ReceiveVideoState(st) ==
  /\ UNCHANGED <<serverVars, peerVars>>
  /\ AfterNewState([ctl EXCEPT !.videoState = st], "video-state")

\* socket.on('sync-state'): handleSyncState
ReceiveSyncState(st, h) ==
  /\ UNCHANGED <<serverVars, peerVars>>
  /\ AfterNewState([ctl EXCEPT !.videoState = st,
                               !.hostId = IF h # 0 THEN h ELSE @],
                   "sync-state")

\* socket.on('sync-correction'): handleSyncCorrection
ReceiveSyncCorrection(playing, seconds) ==
  /\ UNCHANGED <<serverVars, peerVars>>
  /\ AfterNewState(
       [ctl EXCEPT !.videoState =
          IF @ = NoState THEN NoState
          ELSE [@ EXCEPT !.isPlaying = playing, !.playedSeconds = seconds]],
       "sync-correction")

\* socket.on('host-changed'): handleHostChanged
ReceiveHostChanged(h) ==
  /\ UNCHANGED <<serverVars, peerVars>>
  /\ ctl' = [ctl EXCEPT !.hostId = h]
  /\ cout' = <<>>
  /\ cEvent' = [type |-> "host-changed", effectRan |-> FALSE,
                currentTime |-> ctl.pos, at |-> cnow,
                buffering |-> ctl.localBuffering]
  /\ UNCHANGED <<cnow, chist>>

\* a callback that stores no new videoState and does not run the sync effect
Callback(type) ==
  [type |-> type, effectRan |-> FALSE, currentTime |-> ctl.pos, at |-> cnow,
   buffering |-> ctl.localBuffering]

\* onReady of the player: the initial seek to the raw position, and the sync
\* effect when isReady changes
OnReady ==
  /\ UNCHANGED <<serverVars, peerVars>>
  /\ Mounted(ctl)
  /\ LET known   == ctl.videoState # NoState
         first   == IF known THEN <<SeekTo("initial", ctl.videoState.playedSeconds)>>
                             ELSE <<>>
         seeked  == [ctl EXCEPT !.isReady = TRUE,
                                !.pos = IF known THEN ctl.videoState.playedSeconds
                                                 ELSE @]
         res     == IF ctl.isReady
                      THEN [ctl |-> seeked, fx |-> <<>>, ran |-> FALSE,
                            currentTime |-> seeked.pos]
                      ELSE SyncEffect(seeked, cnow)
     IN  /\ ctl' = res.ctl
         /\ cout' = first \o res.fx
         /\ cEvent' = [type |-> "ready", effectRan |-> res.ran,
                       currentTime |-> res.currentTime, at |-> cnow,
                       buffering |-> ctl.localBuffering]
         /\ chist' = IF res.fx # <<>> THEN [chist EXCEPT !.lastSeekAt = cnow]
                                      ELSE chist
  /\ UNCHANGED cnow

\* onPlay, onPause and onSeek of the player: kind is "play", "pause" or "seek"
PlayerPatch(c, kind) ==
  CASE kind = "play"  -> [isPlaying |-> TRUE, playedSeconds |-> c.pos]
    [] kind = "pause" -> [isPlaying |-> FALSE, playedSeconds |-> c.pos]
    [] kind = "seek"  -> [playedSeconds |-> c.pos,
                          isPlaying |-> IF c.videoState = NoState THEN FALSE
                                        ELSE c.videoState.isPlaying]

OnPlayerEvent(kind) ==
  /\ UNCHANGED <<serverVars, peerVars>>
  /\ Mounted(ctl)
  /\ cout' = IF ctl.isSeeking THEN <<>>
             ELSE <<EmitVideoState(kind, PlayerPatch(ctl, kind))>>
  /\ cEvent' = Callback(kind)
  /\ UNCHANGED <<ctl, cnow, chist>>

\* onSeek as the player fires it for a seekTo of the callback before: the
\* handler is the one of a seek by the user
OnSeeked ==
  /\ UNCHANGED <<serverVars, peerVars>>
  /\ Mounted(ctl)
  /\ \E i \in 1..Len(cout) : cout[i].event = "seekTo"
  /\ cout' = IF ctl.isSeeking THEN <<>>
             ELSE <<EmitVideoState("seek", PlayerPatch(ctl, "seek"))>>
  /\ cEvent' = Callback("seeked")
  /\ UNCHANGED <<ctl, cnow, chist>>

BroadcastDue_AtInterval(elapsed) == elapsed >= BroadcastIntervalTenths

BroadcastDue(elapsed) == elapsed > BroadcastIntervalTenths

\* useRoom.reportPosition: the report, and the buffer-state when it changed
ReportPosition(c) ==
  <<[event |-> "position-report", playedSeconds |-> c.pos,
     isBuffering |-> c.localBuffering]>>
  \o (IF c.localBuffering # c.isBuffering
        THEN <<[event |-> "buffer-state", isBuffering |-> c.localBuffering]>>
        ELSE <<>>)

\* handleProgress
OnProgress ==
  /\ UNCHANGED <<serverVars, peerVars>>
  /\ Mounted(ctl)
  /\ LET playing == ctl.videoState # NoState /\ ctl.videoState.isPlaying
         cast    == /\ ~ctl.isSeeking
                    /\ playing
                    /\ IsHost(ctl)
                    /\ BroadcastDue(cnow - ctl.lastBroadcastTime)
     IN  /\ cout' = ReportPosition(ctl) \o
                    (IF cast THEN <<EmitVideoState("periodic",
                                                   [playedSeconds |-> ctl.pos])>>
                             ELSE <<>>)
         /\ ctl' = [ctl EXCEPT !.isBuffering = ctl.localBuffering,
                               !.lastBroadcastTime = IF cast THEN cnow ELSE @]
         /\ chist' = IF cast THEN [chist EXCEPT !.lastPeriodicAt = cnow,
                                                 !.prevPeriodicAt = chist.lastPeriodicAt]
                             ELSE chist
  /\ cEvent' = Callback("progress")
  /\ UNCHANGED cnow

\* onBuffer and onBufferEnd of the player
OnBuffer(b) ==
  /\ UNCHANGED <<serverVars, peerVars>>
  /\ Mounted(ctl)
  /\ ctl' = [ctl EXCEPT !.localBuffering = b]
  /\ cout' = <<>>
  /\ cEvent' = Callback(IF b THEN "buffer" ELSE "buffer-end")
  /\ UNCHANGED <<cnow, chist>>

\* onChange of the url box, which is disabled for a non-host while playing
UrlInput(u) ==
  /\ UNCHANGED <<serverVars, peerVars>>
  /\ ~(~IsHost(ctl) /\ ctl.videoState # NoState /\ ctl.videoState.isPlaying)
  /\ ctl' = [ctl EXCEPT !.url = u]
  /\ cout' = <<>>
  /\ cEvent' = Callback("url-input")
  /\ UNCHANGED <<cnow, chist>>

\* handleUrlSubmit
UrlSubmit ==
  /\ UNCHANGED <<serverVars, peerVars>>
  /\ ctl.url # 0
  /\ ctl' = [ctl EXCEPT !.isReady = FALSE]
  /\ cout' = <<EmitVideoState("url", [url |-> ctl.url, isPlaying |-> TRUE,
                                      playedSeconds |-> 0])>>
  /\ cEvent' = Callback("url-submit")
  /\ UNCHANGED <<cnow, chist>>

\* the player's position changes on its own: playback, or the user scrubbing
PlayerMoves(p) ==
  /\ UNCHANGED <<serverVars, peerVars>>
  /\ Mounted(ctl)
  /\ p # ctl.pos
  /\ ctl' = [ctl EXCEPT !.pos = p]
  /\ cout' = <<>>
  /\ cEvent' = Callback("moved")
  /\ UNCHANGED <<cnow, chist>>

\* the callback of a cooldown setTimeout whose delay has passed
TimerFires(e) ==
  /\ UNCHANGED <<serverVars, peerVars>>
  /\ e \in ctl.timers
  /\ e <= cnow
  /\ ctl' = [ctl EXCEPT !.isSeeking = FALSE, !.timers = @ \ {e}]
  /\ cout' = <<>>
  /\ cEvent' = Callback("cooldown-over")
  /\ UNCHANGED <<cnow, chist>>

\* the controller's wall clock moves on by d, up to the next timer that is due
Advance(d) ==
  /\ UNCHANGED <<serverVars, peerVars>>
  /\ d > 0
  /\ \A e \in ctl.timers : cnow + d <= e
  /\ cnow' = cnow + d
  /\ cout' = <<>>
  /\ cEvent' = [Callback("time") EXCEPT !.at = cnow + d]
  /\ UNCHANGED <<ctl, chist>>

\* ----------------------------------------------------- the peer managers
\* One useWebRTC hook per participant.  Participant ids are strings, kept
\* as sequences of digit codes and compared the way JavaScript compares
\* strings; timers and awaits are pending entries that complete in a later
\* step; signals travel through the relay as a set of messages in flight.

\* a < b on strings: code unit by code unit, a proper prefix sorts first
RECURSIVE StrLess(_, _)
StrLess(a, b) ==
  IF b = <<>> THEN FALSE
  ELSE IF a = <<>> THEN TRUE
  ELSE IF a[1] # b[1] THEN a[1] < b[1]
  ELSE StrLess(Tail(a), Tail(b))

\* new RTCPeerConnection(configuration)
NewPeerConnection ==
  [conn |-> "new", sig |-> "stable", answering |-> FALSE, live |-> FALSE]

SignalMsg(from, to, type) == [from |-> from, to |-> to, type |-> type]

CleanupPeerConnection_KeepsStream(m, p) ==
  IF p \in DOMAIN m.pcs
    THEN [m EXCEPT !.pcs = [q \in DOMAIN m.pcs \ {p} |-> m.pcs[q]],
                   !.connStates = IF m.mounted THEN @ \ {p} ELSE @]
    ELSE m

\* cleanupPeerConnection: for a tracked connection, close and forget it and
\* drop its remoteStreams and connectionStates entries; the new
\* remoteStreams object makes the visibility effect due to run again
CleanupPeerConnection(m, p) ==
  IF p \in DOMAIN m.pcs
    THEN [m EXCEPT !.pcs = [q \in DOMAIN m.pcs \ {p} |-> m.pcs[q]],
                   !.remote = IF m.mounted THEN @ \ {p} ELSE @,
                   !.connStates = IF m.mounted THEN @ \ {p} ELSE @,
                   !.rerun = IF m.mounted THEN @ \cup {p} ELSE @]
    ELSE m

\* createPeerConnection: a tracked connection that is neither closed nor
\* failed is reused, anything else is replaced by a fresh one
CreatePeerConnection(m, p) ==
  IF p \in DOMAIN m.pcs /\ m.pcs[p].conn \notin {"closed", "failed"}
    THEN m
    ELSE LET c == CleanupPeerConnection(m, p)
         IN  [c EXCEPT !.pcs = [q \in DOMAIN c.pcs \cup {p} |->
                                  IF q = p THEN NewPeerConnection ELSE c.pcs[q]]]

\* startCall: the manager after it and the signals it sent; setting a local
\* offer is rejected while a remote offer is pending, and the catch block
\* then sends nothing
StartCall(m, u, p) ==
  IF ~m.stream THEN [pm |-> m, sent |-> {}]
  ELSE LET c == CreatePeerConnection(m, p)
       IN  IF c.pcs[p].sig = "have-remote-offer"
             THEN [pm |-> c, sent |-> {}]
             ELSE [pm |-> [c EXCEPT !.pcs[p].sig = "have-local-offer"],
                   sent |-> {SignalMsg(u, p, "offer")}]

\* who opens the call between two participants
IsInitiator(u, p) == StrLess(u, p)

ReinitiatesCall_Always(u, p) == TRUE

\* the test of reconnectPeer after its wait
ReinitiatesCall(u, p) == StrLess(u, p)

\* a step of participant u's manager: its new state, the signals it sends
PeerStep(u, m, sent, type, p) ==
  /\ pm' = [pm EXCEPT ![u] = m]
  /\ wire' = wire \cup sent
  /\ offers' = offers \cup {<<s.from, s.to>> : s \in {x \in sent : x.type = "offer"}}
  /\ pmEvent' = [type |-> type, user |-> u, peer |-> p, sent |-> sent,
                 changed |-> m # pm[u]]

\* initializeMedia: getUserMedia gives a stream or fails
InitializeMedia(u, ok) ==
  /\ UNCHANGED <<serverVars, clientVars>>
  /\ PeerStep(u, [pm[u] EXCEPT !.stream = IF ok THEN TRUE ELSE @], {}, "media", u)

\* the call component opens the call to a participant it sees in the room
InitiateCall(u, p) ==
  /\ UNCHANGED <<serverVars, clientVars>>
  /\ pm[u].mounted
  /\ u # p
  /\ IsInitiator(u, p)
  /\ LET res == StartCall(pm[u], u, p)
     IN  PeerStep(u, res.pm, res.sent, "call", p)

HandleOffer_TearsDownOnFailure(m, u, p, applies) ==
  LET c == CreatePeerConnection(m, p)
  IN  IF applies
        THEN [pm |-> [c EXCEPT !.pcs[p].sig = "have-remote-offer",
                               !.pcs[p].answering = TRUE],
              sent |-> {}]
        ELSE [pm |-> CleanupPeerConnection(c, p), sent |-> {}]

\* handleSignal for an offer, up to its first await: setRemoteDescription
\* applies the offer or throws (a description the browser rejects, or an
\* offer over a local offer in a browser that does not roll back), and the
\* catch block then leaves the connection as it is
HandleOffer(m, u, p, applies) ==
  LET c == CreatePeerConnection(m, p)
  IN  IF applies
        THEN [pm |-> [c EXCEPT !.pcs[p].sig = "have-remote-offer",
                               !.pcs[p].answering = TRUE],
              sent |-> {}]
        ELSE [pm |-> c, sent |-> {}]

HandleAnswer_CreatesConnection(m, u, p) ==
  LET c == CreatePeerConnection(m, p)
  IN  [pm |-> [c EXCEPT !.pcs[p].sig = "stable"], sent |-> {}]

\* handleSignal for an answer
HandleAnswer(m, u, p) ==
  IF p \in DOMAIN m.pcs /\ m.pcs[p].sig = "have-local-offer"
    THEN [pm |-> [m EXCEPT !.pcs[p].sig = "stable"], sent |-> {}]
    ELSE [pm |-> m, sent |-> {}]

\* socket.on('signal'): handleSignal
ReceiveSignal(msg, applies) ==
  /\ UNCHANGED <<serverVars, clientVars>>
  /\ msg \in wire
  /\ pm[msg.to].mounted
  /\ LET u   == msg.to
         p   == msg.from
         res == IF p = u THEN [pm |-> pm[u], sent |-> {}]
                ELSE IF msg.type = "offer" THEN HandleOffer(pm[u], u, p, applies)
                ELSE HandleAnswer(pm[u], u, p)
     IN  /\ pm' = [pm EXCEPT ![u] = res.pm]
         /\ wire' = (wire \ {msg}) \cup res.sent
         /\ UNCHANGED offers
         /\ pmEvent' = [type |-> msg.type, user |-> u, peer |-> p, sent |-> res.sent,
                        changed |-> res.pm # pm[u]]

\* handleSignal for an offer after setRemoteDescription: createAnswer and
\* setLocalDescription succeed, and the answer goes out, or one of them
\* throws; a connection cleaned up in between has no continuation left
AnswerCreated(u, p, ok) ==
  /\ UNCHANGED <<serverVars, clientVars>>
  /\ p \in DOMAIN pm[u].pcs
  /\ pm[u].pcs[p].answering
  /\ LET m == [pm[u] EXCEPT !.pcs[p].answering = FALSE]
     IN  IF ok /\ m.pcs[p].sig = "have-remote-offer"
           THEN PeerStep(u, [m EXCEPT !.pcs[p].sig = "stable"],
                         {SignalMsg(u, p, "answer")}, "answered", p)
           ELSE PeerStep(u, m, {}, "answer-failed", p)

\* onconnectionstatechange: the browser reports a new state of a tracked
\* connection, and a failed or closed one is cleaned up at once
ConnectionStateChange(u, p, state) ==
  /\ UNCHANGED <<serverVars, clientVars>>
  /\ p \in DOMAIN pm[u].pcs
  /\ pm[u].pcs[p].conn # state
  /\ LET m == [pm[u] EXCEPT !.pcs[p].conn = state,
                             !.connStates = IF pm[u].mounted THEN @ \cup {p} ELSE @]
     IN  PeerStep(u, IF state \in {"failed", "closed"}
                       THEN CleanupPeerConnection(m, p) ELSE m,
                  {}, "state", p)

\* socket.on('user-disconnected'): handleUserDisconnected
UserDisconnected(u, p) ==
  /\ UNCHANGED <<serverVars, clientVars>>
  /\ pm[u].mounted
  /\ PeerStep(u, CleanupPeerConnection(pm[u], p), {}, "user-disconnected", p)

\* the health check schedules a reconnect only without a table entry
SchedulesReconnect(m, p) == p \notin m.timers

\* a tick of the health check interval, which runs while mounted and does
\* nothing while the page is hidden
HealthSweep(u) ==
  /\ UNCHANGED <<serverVars, clientVars>>
  /\ pm[u].mounted
  /\ LET bad == {p \in DOMAIN pm[u].pcs :
                   /\ pm[u].visible
                   /\ pm[u].pcs[p].conn \in {"failed", "disconnected"}
                   /\ SchedulesReconnect(pm[u], p)}
     IN  PeerStep(u, [pm[u] EXCEPT !.timers = @ \cup bad,
                                   !.armed = [p \in PeerIds |->
                                                IF p \in bad THEN @[p] + 1 ELSE @[p]]],
                  {}, "sweep", u)

\* cleanupPeerConnection for each peer of R
RECURSIVE CleanupAll(_, _)
CleanupAll(m, R) ==
  IF R = {} THEN m
  ELSE LET p == CHOOSE q \in R : TRUE
       IN  CleanupAll(CleanupPeerConnection(m, p), R \ {p})

\* reconnectPeer up to its wait, for each peer of R: the table entry and
\* the timer it names go, the connection goes, the wait begins
BeginReconnect(m, R) ==
  [CleanupAll(m, R) EXCEPT
     !.armed = [p \in PeerIds |-> IF p \in R \cap m.timers THEN 0 ELSE @[p]],
     !.timers = @ \ R,
     !.waits = @ \cup R]

\* the reconnect timer of peer p fires
ReconnectTimerFires(u, p) ==
  /\ UNCHANGED <<serverVars, clientVars>>
  /\ pm[u].armed[p] > 0
  /\ PeerStep(u, BeginReconnect([pm[u] EXCEPT !.armed[p] = @ - 1], {p}),
              {}, "reconnect", p)

\* reconnectPeer after its wait
ReconnectResumes(u, p) ==
  /\ UNCHANGED <<serverVars, clientVars>>
  /\ p \in pm[u].waits
  /\ LET m   == [pm[u] EXCEPT !.waits = @ \ {p}]
         res == IF ReinitiatesCall(u, p) THEN StartCall(m, u, p)
                                         ELSE [pm |-> m, sent |-> {}]
     IN  PeerStep(u, res.pm, res.sent, "reconnect-resumed", p)

\* ontrack of a tracked connection: a remote stream arrives
TrackArrives(u, p) ==
  /\ UNCHANGED <<serverVars, clientVars>>
  /\ p \in DOMAIN pm[u].pcs
  /\ PeerStep(u, [pm[u] EXCEPT !.pcs[p].live = TRUE,
                               !.remote = IF pm[u].mounted THEN @ \cup {p} ELSE @,
                               !.rerun = IF pm[u].mounted THEN @ \cup {p} ELSE @],
              {}, "track", p)

\* the inbound tracks of a tracked connection end
TrackEnds(u, p) ==
  /\ UNCHANGED <<serverVars, clientVars>>
  /\ p \in DOMAIN pm[u].pcs
  /\ pm[u].pcs[p].live
  /\ PeerStep(u, [pm[u] EXCEPT !.pcs[p].live = FALSE], {}, "track-ended", p)

\* React runs the visibility effect again after remoteStreams changed: its
\* cleanup clears every timer of the table and keeps the entries
EffectReruns(u) ==
  /\ UNCHANGED <<serverVars, clientVars>>
  /\ pm[u].rerun # {}
  /\ pm' = [pm EXCEPT ![u].armed = [p \in PeerIds |-> 0],
                      ![u].rerun = {},
                      ![u].shown = pm[u].remote]
  /\ pmEvent' = [type |-> "effect", user |-> u, peer |-> u, sent |-> {},
                 causes |-> pm[u].rerun]
  /\ UNCHANGED <<wire, offers>>

\* visibilitychange: the page is hidden, or shown again, which starts the
\* resume sweep's wait with the remoteStreams of the effect's last run
VisibilityChange(u, visible) ==
  /\ UNCHANGED <<serverVars, clientVars>>
  /\ pm[u].mounted
  /\ pm[u].visible # visible
  /\ PeerStep(u, [pm[u] EXCEPT !.visible = visible,
                               !.resuming = IF visible
                                              THEN [on |-> TRUE, recorded |-> pm[u].shown]
                                              ELSE @],
              {}, IF visible THEN "shown" ELSE "hidden", u)

\* the resume sweep's test of one connection; recorded says whether the
\* remoteStreams the handler captured has an entry for the peer
ResumeReconnects(pc, recorded) ==
  \/ pc.conn \in {"failed", "disconnected", "closed"}
  \/ pc.conn = "connected" /\ ~pc.live /\ ~recorded

\* the resume sweep after its wait (the local capture is taken as intact)
ResumeSweep(u) ==
  /\ UNCHANGED <<serverVars, clientVars>>
  /\ pm[u].resuming.on
  /\ LET R == {p \in DOMAIN pm[u].pcs :
                 ResumeReconnects(pm[u].pcs[p], p \in pm[u].resuming.recorded)}
     IN  /\ pm' = [pm EXCEPT ![u] = [BeginReconnect(pm[u], R) EXCEPT
                                       !.resuming = NotResuming]]
         /\ pmEvent' = [type |-> "resume-sweep", user |-> u, peer |-> u,
                        sent |-> {}, reconnected |-> R, before |-> pm[u].pcs,
                        recorded |-> pm[u].resuming.recorded]
  /\ UNCHANGED <<wire, offers>>

\* the component unmounts: every effect is cleaned up, which closes all
\* connections and clears all timers of the table
Unmount(u) ==
  /\ UNCHANGED <<serverVars, clientVars>>
  /\ pm[u].mounted
  /\ PeerStep(u, [pm[u] EXCEPT !.mounted = FALSE, !.pcs = <<>>,
                               !.armed = [p \in PeerIds |-> 0], !.rerun = {}],
              {}, "unmount", u)

\* the hook of participant from emits a signal for participant to
PeerSends(from, to, type) ==
  /\ UNCHANGED <<serverVars, clientVars>>
  /\ from # to
  /\ wire' = wire \cup {SignalMsg(from, to, type)}
  /\ offers' = IF type = "offer" THEN offers \cup {<<from, to>>} ELSE offers
  /\ pmEvent' = [type |-> "sent", user |-> from, peer |-> to,
                 sent |-> {SignalMsg(from, to, type)}]
  /\ UNCHANGED pm

\* the relay drops a signal whose target it does not know
SignalLost(msg) ==
  /\ UNCHANGED <<serverVars, clientVars>>
  /\ msg \in wire
  /\ wire' = wire \ {msg}
  /\ pmEvent' = [type |-> "lost", user |-> msg.to, peer |-> msg.from, sent |-> {}]
  /\ UNCHANGED <<pm, offers>>

\* ------------------------------------------------------- specifications
\* Every specification starts from the empty store and runs the handlers
\* above; they differ in the inputs they enumerate.

PlayPatch == [isPlaying |-> TRUE, updatedBy |-> 1]
SeekPausePatch == [isPlaying |-> FALSE, playedSeconds |-> 10, updatedBy |-> 2]
HostIdPatch == [hostId |-> 2]

RECURSIVE SumOver(_, _)
SumOver(f, S) ==
  IF S = {} THEN 0 ELSE LET x == CHOOSE y \in S : TRUE IN f[x] + SumOver(f, S \ {x})

TotalReports == SumOver([p \in RoomIds \X UserIds |-> reported[p[1]][p[2]].k], RoomIds \X UserIds)
TotalChat == SumOver(chatTotal, RoomIds)

\* Spec: roster and host.  Every handler runs; joins and disconnects range
\* over all sockets, users and rooms, the other events over one input each.
DoConnection == \E s \in Sockets : Connection(s)
DoJoinRoom == \E s \in Sockets, r \in RoomIds, u \in UserIds : JoinRoom(s, r, u, now)
DoVideoState == \E s \in Sockets, r \in RoomIds : VideoState(s, r, HostIdPatch, now)
DoPositionReport ==
  \E s \in Sockets, r \in RoomIds, u \in UserIds :
    /\ TotalReports < MaxReports
    /\ PositionReport(s, r, u, 4, FALSE, now)
DoBufferState == \E s \in Sockets, r \in RoomIds, u \in UserIds : BufferState(s, r, u, TRUE)
DoChatMessage == \E s \in Sockets, r \in RoomIds : TotalChat < MaxChat /\ ChatMessage(s, r, now)
DoSignal == \E s \in Sockets, r \in RoomIds, to \in UserIds : Signal(s, r, to, 1, "offer")
DoDisconnecting == \E s \in Sockets : Disconnecting(s)

Next ==
  \/ DoConnection
  \/ DoJoinRoom
  \/ DoVideoState
  \/ DoPositionReport
  \/ DoBufferState
  \/ DoChatMessage
  \/ DoSignal
  \/ DoDisconnecting

Spec == Init /\ [][Next]_vars

\* SpecVideo: the playback state.  One user joins and leaves; any socket
\* sends any patch; the clock advances.
NextVideo ==
  \/ \E s \in Sockets : Connection(s)
  \/ \E s \in Sockets, r \in RoomIds, t \in ClockReadings : JoinRoom(s, r, 1, t)
  \/ \E s \in Sockets, r \in RoomIds, p \in Patches, t \in ClockReadings :
       VideoState(s, r, p, t)
  \/ \E s \in Sockets : Disconnecting(s)

SpecVideo == Init /\ [][NextVideo]_vars

\* SpecHost: the roster and the host.  Sockets join under three user ids,
\* one of them numeric, and disconnect.
NextHostStep ==
  \/ \E s \in Sockets : Connection(s)
  \/ \E s \in Sockets, r \in RoomIds, u \in UserIds \cup NumericIds : JoinRoom(s, r, u, now)
  \/ \E s \in Sockets : Disconnecting(s)

SpecHost == Init /\ [][NextHostStep]_vars

\* SpecReport: drift corrections.  Users join and re-join from any socket;
\* the stored state is played or paused-and-sought; any socket reports any
\* position for any user.
NextReport ==
  \/ \E s \in Sockets : Connection(s)
  \/ \E s \in Sockets, r \in RoomIds, u \in UserIds : JoinRoom(s, r, u, now)
  \/ \E s \in Sockets, r \in RoomIds, p \in {PlayPatch, SeekPausePatch} :
       VideoState(s, r, p, now)
  \/ \E s \in Sockets, r \in RoomIds, u \in UserIds, pos \in ReportPositions,
        buf \in BOOLEAN :
       /\ TotalReports < MaxReports
       /\ PositionReport(s, r, u, pos, buf, now)

SpecReport == Init /\ [][NextReport]_vars

\* SpecQuality: connection quality.  One user joins, re-joins and leaves;
\* the stored state is played or paused-and-sought; the user's position is
\* reported several times.
QualityConnection == \E s \in Sockets : Connection(s)
QualityJoinRoom == \E s \in Sockets, r \in RoomIds : JoinRoom(s, r, 1, now)
QualityVideoState ==
  \E r \in RoomIds, p \in {PlayPatch, SeekPausePatch} : VideoState(1, r, p, now)
QualityPositionReport ==
  \E r \in RoomIds, pos \in ReportPositions :
    /\ TotalReports < ReportBudget
    /\ PositionReport(1, r, 1, pos, FALSE, now)
QualityDisconnecting == \E s \in Sockets : Disconnecting(s)

NextQuality ==
  \/ QualityConnection
  \/ QualityJoinRoom
  \/ QualityVideoState
  \/ QualityPositionReport
  \/ QualityDisconnecting

SpecQuality == Init /\ [][NextQuality]_vars

\* SpecChat: the chat log.  One user joins and leaves; any socket sends
\* messages, past the capacity of the log.
NextChat ==
  \/ \E s \in Sockets : Connection(s)
  \/ \E s \in Sockets, r \in RoomIds : JoinRoom(s, r, 1, now)
  \/ \E s \in Sockets, r \in RoomIds :
       /\ chatTotal[r] < MaxMessages + ChatOverflow
       /\ ChatMessage(s, r, now)
  \/ \E s \in Sockets : Disconnecting(s)

SpecChat == Init /\ [][NextChat]_vars

\* SpecSync: the sync effect.  States around position 120.0 s stamped 1.8 s
\* before and at the controller's start, by either author; local positions
\* at, just inside, just outside the two thresholds; the clock moves in
\* steps of 0.4 s, so that latencies of 0, 0.4, 0.8, 1.8, 2.2 and 2.6 s occur.
SyncStates ==
  {ClientState(playing, 1200, stamp, author, 1) :
     playing \in BOOLEAN, stamp \in {ClientEpoch - 18, ClientEpoch},
     author \in {Me, Other}}

StoreInitialState == ClientState(FALSE, 0, ClientEpoch, 0, 0)

LocalPositions == {1200, 1203, 1204, 1221}

SyncSteps == {4}

NextSync ==
  \/ \E st \in SyncStates : ReceiveVideoState(st)
  \/ ReceiveSyncState(StoreInitialState, Other)
  \/ \E playing \in BOOLEAN : ReceiveSyncCorrection(playing, 1200)
  \/ OnReady
  \/ \E b \in BOOLEAN : OnBuffer(b)
  \/ \E p \in LocalPositions : PlayerMoves(p)
  \/ \E d \in SyncSteps : cnow + d <= ClientEpoch + MaxSyncTime /\ Advance(d)

SpecSync == Init /\ [][NextSync]_vars

\* SpecCooldown: the cooldown timers.  One playing state of the other
\* participant, two local positions, every player event, the clock in steps
\* of 0.2 s for 1.4 s.
CoolState == ClientState(TRUE, 1200, ClientEpoch, Other, 1)

CoolPositions == {1200, 1230}

CoolSteps == {2}

NextCooldown ==
  \/ ReceiveVideoState(CoolState)
  \/ ReceiveHostChanged(Me)
  \/ OnReady
  \/ \E kind \in {"play", "pause", "seek"} : OnPlayerEvent(kind)
  \/ OnProgress
  \/ \E p \in CoolPositions : PlayerMoves(p)
  \/ \E e \in ctl.timers : TimerFires(e)
  \/ \E d \in CoolSteps : cnow + d <= ClientEpoch + MaxCoolTime /\ Advance(d)

SpecCooldown == Init /\ [][NextCooldown]_vars

\* SpecBroadcast: the host's periodic broadcast.  The controller's own
\* states, playing and paused, the host flag given and taken away, the url
\* box, the clock in steps of 0.5 s for 2 s.
CastStates ==
  {ClientState(playing, 1200, ClientEpoch, Me, 1) : playing \in BOOLEAN}

CastSteps == {5}

NextBroadcast ==
  \/ \E h \in {Me, Other} : ReceiveSyncState(StoreInitialState, h)
  \/ \E st \in CastStates : ReceiveVideoState(st)
  \/ \E h \in {Me, Other} : ReceiveHostChanged(h)
  \/ OnReady
  \/ OnProgress
  \/ \E u \in {0, 1} : UrlInput(u)
  \/ UrlSubmit
  \/ \E d \in CastSteps : cnow + d <= ClientEpoch + MaxCastTime /\ Advance(d)

SpecBroadcast == Init /\ [][NextBroadcast]_vars

\* SpecLoop: a participant joins and its player becomes ready.  The states
\* of SpecSync arrive in snapshots and updates, and the player answers
\* every seekTo with its onSeek callback.
NextLoop ==
  \/ \E st \in SyncStates : ReceiveSyncState(st, Other)
  \/ \E st \in SyncStates : ReceiveVideoState(st)
  \/ OnReady
  \/ OnSeeked
  \/ \E p \in LocalPositions : PlayerMoves(p)
  \/ \E d \in SyncSteps : cnow + d <= ClientEpoch + MaxSyncTime /\ Advance(d)

SpecLoop == Init /\ [][NextLoop]_vars

\* SpecRace: the host's periodic broadcast against a seek of the other
\* participant.  The controller is the one of user 1 on socket 1, the other
\* participant is user 2 on socket 2; both join room 1, the controller
\* learns a playing state and its role, its player moves and reports
\* progress, and the video-state it emits stays in flight until the server
\* handles it; the other participant's seek reaches the server at any time.
SeekPatch == [playedSeconds |-> 600, isPlaying |-> TRUE, updatedBy |-> Other]

\* the server handles the video-state event the controller emitted
EmittedStateArrives(t) ==
  /\ \E i \in 1..Len(cout) :
       /\ cout[i].event = "video-state"
       /\ HandleVideoState(Me, 1, cout[i].videoState, t)
       /\ cout' = SubSeq(cout, 1, i - 1) \o SubSeq(cout, i + 1, Len(cout))
  /\ UNCHANGED <<ctl, cnow, cEvent, chist, peerVars>>

NextRace ==
  \/ \E s \in {Me, Other} : Connection(s)
  \/ \E s \in {Me, Other} : JoinRoom(s, 1, s, now)
  \/ VideoState(Other, 1, SeekPatch, now)
  \/ \E t \in ClockReadings : EmittedStateArrives(t)
  \/ ReceiveVideoState(CoolState)
  \/ ReceiveHostChanged(Me)
  \/ OnProgress
  \/ \E p \in CoolPositions : PlayerMoves(p)
  \/ \E d \in CastSteps : cnow + d <= ClientEpoch + MaxCastTime /\ Advance(d)

SpecRace == Init /\ [][NextRace]_vars

\* SpecCall: the managers of two participants whose ids sort as strings
\* against their numeric order, every signal delivered or lost, every
\* connection state that leads to a reconnect, the health check and the
\* reconnects.
CallPeers == {<<1, 0>>, <<2>>}

CallConnStates == {"disconnected", "failed"}

NextCall ==
  \/ \E u \in CallPeers : InitializeMedia(u, TRUE)
  \/ \E u \in CallPeers, p \in CallPeers : InitiateCall(u, p)
  \/ \E msg \in wire, applies \in BOOLEAN : ReceiveSignal(msg, applies)
  \/ \E u \in CallPeers, p \in CallPeers : AnswerCreated(u, p, TRUE)
  \/ \E msg \in wire : SignalLost(msg)
  \/ \E u \in CallPeers, p \in CallPeers, state \in CallConnStates : ConnectionStateChange(u, p, state)
  \/ \E u \in CallPeers : \E p \in CallPeers \ {u} : UserDisconnected(u, p)
  \/ \E u \in CallPeers : HealthSweep(u)
  \/ \E u \in CallPeers : EffectReruns(u)
  \/ \E u \in CallPeers, p \in CallPeers : ReconnectTimerFires(u, p)
  \/ \E u \in CallPeers, p \in CallPeers : ReconnectResumes(u, p)

SpecCall == Init /\ [][NextCall]_vars

\* SpecPeer: the manager of participant "2" with the higher-id peer "3",
\* whose hook sends it any offer or answer, one signal in flight at a time;
\* the connection takes every state and gains a remote stream; the health
\* check, the reconnects and the unmount.
Self == <<2>>

Peers == {<<3>>}

PeerConnStates == {"connected", "disconnected", "failed"}

NextPeer ==
  \/ InitializeMedia(Self, TRUE)
  \/ \E p \in Peers : InitiateCall(Self, p)
  \/ \E p \in Peers, type \in {"offer", "answer"} : wire = {} /\ PeerSends(p, Self, type)
  \/ \E msg \in wire, applies \in BOOLEAN : msg.to = Self /\ ReceiveSignal(msg, applies)
  \/ \E p \in Peers, ok \in BOOLEAN : AnswerCreated(Self, p, ok)
  \/ \E msg \in wire : SignalLost(msg)
  \/ \E p \in Peers, state \in PeerConnStates : ConnectionStateChange(Self, p, state)
  \/ \E p \in Peers : UserDisconnected(Self, p)
  \/ \E p \in Peers : TrackArrives(Self, p)
  \/ HealthSweep(Self)
  \/ EffectReruns(Self)
  \/ \E p \in Peers : ReconnectTimerFires(Self, p)
  \/ \E p \in Peers : ReconnectResumes(Self, p)
  \/ Unmount(Self)

SpecPeer == Init /\ [][NextPeer]_vars

\* SpecResume: the same manager and peer, the call opened by the manager;
\* the connection gains and loses its tracks, the page is hidden and shown.
NextResume ==
  \/ InitializeMedia(Self, TRUE)
  \/ \E p \in Peers : InitiateCall(Self, p)
  \/ \E msg \in wire : SignalLost(msg)
  \/ \E p \in Peers, state \in PeerConnStates : ConnectionStateChange(Self, p, state)
  \/ \E p \in Peers : TrackArrives(Self, p)
  \/ \E p \in Peers : TrackEnds(Self, p)
  \/ EffectReruns(Self)
  \/ \E visible \in BOOLEAN : VisibilityChange(Self, visible)
  \/ ResumeSweep(Self)
  \/ \E p \in Peers : ReconnectResumes(Self, p)

SpecResume == Init /\ [][NextResume]_vars

\* one participant with two remote peers, both of higher id: its calls,
\* the connection states, tracks and departures of the peers, the health
\* check, the effect re-run and the reconnect timers
Caller == <<1, 0>>

Callees == {<<2>>, <<3>>}

NextPair ==
  \/ InitializeMedia(Caller, TRUE)
  \/ \E p \in Callees : InitiateCall(Caller, p)
  \/ \E p \in Callees : ConnectionStateChange(Caller, p, "disconnected")
  \/ \E p \in Callees : UserDisconnected(Caller, p)
  \/ \E p \in Callees : TrackArrives(Caller, p)
  \/ HealthSweep(Caller)
  \/ EffectReruns(Caller)
  \/ \E p \in Callees : ReconnectTimerFires(Caller, p)
  \/ \E p \in Callees : ReconnectResumes(Caller, p)

SpecPair == Init /\ [][NextPair]_vars

\* the lower-id participant and one peer while the page stays visible: the
\* browser reports bad connection states, and the interval, the timers,
\* the 500 ms wait and React's effects all run in the end
NextHeal ==
  \/ InitializeMedia(Self, TRUE)
  \/ \E p \in Peers : InitiateCall(Self, p)
  \/ \E msg \in wire : SignalLost(msg)
  \/ \E p \in Peers, state \in CallConnStates : ConnectionStateChange(Self, p, state)
  \/ \E p \in Peers : TrackArrives(Self, p)
  \/ HealthSweep(Self)
  \/ EffectReruns(Self)
  \/ \E p \in Peers : ReconnectTimerFires(Self, p)
  \/ \E p \in Peers : ReconnectResumes(Self, p)

SpecHeal ==
  /\ Init
  /\ [][NextHeal]_vars
  /\ WF_vars(HealthSweep(Self))
  /\ WF_vars(EffectReruns(Self))
  /\ \A p \in Peers : WF_vars(ReconnectTimerFires(Self, p))
  /\ \A p \in Peers : WF_vars(ReconnectResumes(Self, p))

\* ------------------------------------------------------------------ claims
Emitted(o, ev, r) == {i \in 1..Len(o) : o[i].event = ev /\ o[i].room = r}

HostSocket(room) == room.users[IndexOfUser(room.users, room.hostId)].socketId

\* C1: in every reachable state, every room with a non-empty roster has a
\* hostId that is the id of a user in that roster.
HostInRoster ==
  \A r \in DOMAIN rooms :
    Len(rooms[r].users) > 0 => rooms[r].hostId \in UserIdsOf(rooms[r].users)

\* a host left a room that lives on, after some socket in it was superseded
\* by a re-join
WitnessHostInRoster ==
  /\ lastEvent.type = "disconnecting"
  /\ \E r \in lastEvent.left \cap DOMAIN rooms :
       /\ Emitted(out, "host-changed", r) # {}
       /\ \E s \in Sockets : sockets[s].status = "open" /\ r \in Range(sockets[s].rooms)
                              /\ FindUserBySocket(rooms[r].users, s) = 0

\* C2: no reachable state holds a room with an empty roster (the disconnect
\* that removes the last user deletes the room in the same step).
NoEmptyRoom == \A r \in DOMAIN rooms : Len(rooms[r].users) >= 1

\* the last user of a room has just left and the room is gone
WitnessNoEmptyRoom ==
  /\ lastEvent.type = "disconnecting"
  /\ \E r \in lastEvent.deleted : r \in lastEvent.left /\ r \notin DOMAIN rooms

\* C3: after N chat messages accepted by a room, its log has length
\* min(N, 100) and holds the most recent min(N, 100) of them in arrival order.
ChatLogIsRecentWindow ==
  \A r \in DOMAIN rooms :
    LET n == chatTotal[r]
        len == Min(n, MaxMessages)
        log == rooms[r].messages
    IN /\ Len(log) = len
       /\ \A i \in 1..len : log[i].body = n - len + i

\* a message has just been appended to a full log
WitnessChatEviction ==
  /\ lastEvent.type = "chat-message"
  /\ \E r \in DOMAIN rooms :
       /\ chatTotal[r] > MaxMessages
       /\ Len(rooms[r].messages) = MaxMessages
       /\ rooms[r].messages[1].body = chatTotal[r] - MaxMessages + 1

\* C4: every accepted video-state update stores lastUpdated and
\* serverTimestamp equal to the server's clock at receipt, whatever the patch
\* carried and whoever sent it, and a room's stored serverTimestamp never
\* decreases.
StampedByServerClock ==
  [][\A r \in DOMAIN rooms \cap DOMAIN rooms' :
       /\ rooms'[r].videoState.serverTimestamp >= rooms[r].videoState.serverTimestamp
       /\ (lastEvent'.type = "video-state" /\ lastEvent'.room = r) =>
            /\ rooms'[r].videoState.serverTimestamp = now'
            /\ rooms'[r].videoState.lastUpdated = now']_vars

\* a socket that is in no roster has just sent a patch carrying its own
\* (older) serverTimestamp and lastUpdated
WitnessSpoofedStamp ==
  /\ lastEvent.type = "video-state"
  /\ lastEvent.accepted
  /\ "serverTimestamp" \in DOMAIN lastEvent.videoState
  /\ lastEvent.videoState.serverTimestamp < now
  /\ lastEvent.videoState.lastUpdated # now
  /\ FindUserBySocket(rooms[lastEvent.room].users, lastEvent.socket) = 0

\* C5: a key of a patch that is not a VideoState field never appears in the
\* stored state.
OnlyVideoStateFieldsStored ==
  \A r \in DOMAIN rooms : DOMAIN rooms[r].videoState \subseteq VideoStateFields

SansTimestamps(vs) == [k \in DOMAIN vs \ {"lastUpdated", "serverTimestamp"} |-> vs[k]]

\* C6: applying to a room the patch that was applied to it in the step
\* before leaves the stored state as it was, apart from lastUpdated and
\* serverTimestamp.
SamePatchTwiceIsOnce ==
  [][\A r \in DOMAIN rooms \cap DOMAIN rooms' :
       (/\ lastEvent'.type = "video-state"
        /\ lastEvent'.room = r
        /\ lastEvent'.repeated) =>
         SansTimestamps(rooms'[r].videoState) = SansTimestamps(rooms[r].videoState)]_vars

\* a patch that moves the position was applied twice in a row, the second
\* time at a later clock reading
WitnessSamePatchTwice ==
  /\ lastEvent.type = "video-state"
  /\ lastEvent.repeated
  /\ "playedSeconds" \in DOMAIN lastEvent.videoState
  /\ lastEvent.at > rooms[lastEvent.room].createdAt

\* C7: after k position reports for a user, with drifts d1..dk, the user's
\* stored reportCount is k and the stored averageDrift is (d1+...+dk)/k.
AverageIsMeanOfReports ==
  \A r \in DOMAIN rooms : \A i \in 1..Len(rooms[r].users) :
    LET usr == rooms[r].users[i]
        h == reported[r][usr.id]
    IN h.k > 0 =>
         /\ "connectionQuality" \in DOMAIN usr
         /\ usr.connectionQuality.reportCount = h.k
         /\ usr.connectionQuality.averageDrift = Rat(h.sum, h.k)

\* C8: on a position report for a user of the roster, a sync-correction is
\* emitted iff drift > 0.3 and the stored state is playing and the report is
\* not flagged buffering; it is addressed to the endpoint recorded for that
\* user and reaches no other socket.
CorrectionIffDriftingToReporterOnly ==
  (/\ lastEvent.type = "position-report"
   /\ lastEvent.room \in DOMAIN rooms
   /\ HasUser(rooms[lastEvent.room].users, lastEvent.userId)) =>
    LET room == rooms[lastEvent.room]
        usr == room.users[IndexOfUser(room.users, lastEvent.userId)]
        drift == Abs(lastEvent.playedSeconds - room.videoState.playedSeconds)
        sent == Emitted(out, "sync-correction", lastEvent.room)
    IN /\ (sent # {}) <=> (/\ drift > DriftThresholdTenths
                           /\ room.videoState.isPlaying
                           /\ ~lastEvent.isBuffering)
       /\ Cardinality(sent) <= 1
       /\ \A i \in sent :
            /\ out[i].scope = "socket"
            /\ out[i].to = usr.socketId
            /\ out[i].rcpt \subseteq {usr.socketId}
       /\ \A i \in 1..Len(out) : i \in sent

\* a correction went to the reporting user's current endpoint, after a
\* re-join, in a room with another member on another socket, while the
\* report came in on a different socket
WitnessCorrection ==
  /\ lastEvent.type = "position-report"
  /\ lastEvent.room \in DOMAIN rooms
  /\ \E i \in Emitted(out, "sync-correction", lastEvent.room) :
       /\ out[i].rcpt # {}
       /\ lastEvent.socket \notin out[i].rcpt
       /\ \E j \in 1..Len(rooms[lastEvent.room].users) :
            rooms[lastEvent.room].users[j].socketId \notin out[i].rcpt \cup {lastEvent.socket}

\* C9: when the socket recorded for the host disconnects from a room with
\* at least one other member, the room survives, hostId changes to a
\* remaining member, and exactly one host-changed (to the room) and one
\* host-assigned (to the new host's endpoint) are emitted for that room.
HostDepartureStep(r) ==
  /\ lastEvent'.type = "disconnecting"
  /\ Len(rooms[r].users) >= 2
  /\ HostSocket(rooms[r]) = lastEvent'.socket

HostChangesOnlyOnHostDeparture ==
  [][\A r \in DOMAIN rooms \cap DOMAIN rooms' :
       rooms'[r].hostId # rooms[r].hostId =>
         /\ lastEvent'.type = "disconnecting"
         /\ rooms[r].hostId \in UserIdsOf(rooms[r].users)
         /\ rooms[r].hostId \notin UserIdsOf(rooms'[r].users)]_vars

\* a non-host member has just left, and the host had re-joined before
WitnessHostKept ==
  /\ lastEvent.type = "disconnecting"
  /\ \E r \in lastEvent.left \cap DOMAIN rooms :
       /\ Emitted(out, "host-changed", r) = {}
       /\ "hostId" \in DOMAIN rooms[r].videoState
       /\ rooms[r].messages # <<>>

\* C11: the first participant to join a nonexistent room is its host, and
\* the sync-state snapshot a join returns is taken after the upsert: its
\* users hold the joiner and its hostId is the id of one of its users.
JoinSnapshotAfterUpsert ==
  lastEvent.type = "join-room" =>
    LET r == lastEvent.room
        snaps == Emitted(out, "sync-state", r)
    IN /\ r \in DOMAIN rooms
       /\ lastEvent.created => rooms[r].hostId = lastEvent.userId
       /\ Cardinality(snaps) = 1
       /\ \A i \in snaps :
            /\ out[i].scope = "socket"
            /\ out[i].to = lastEvent.socket
            /\ lastEvent.userId \in UserIdsOf(out[i].payload.users)
            /\ out[i].payload.hostId \in UserIdsOf(out[i].payload.users)
            /\ out[i].payload.users = rooms[r].users
            /\ out[i].payload.hostId = rooms[r].hostId
            /\ lastEvent.created => out[i].payload.hostId = lastEvent.userId

\* a room has just been created by its first joiner
WitnessFirstJoinerHosts ==
  /\ lastEvent.type = "join-room"
  /\ lastEvent.created
  /\ \E i \in Emitted(out, "sync-state", lastEvent.room) :
       Len(out[i].payload.users) = 1 /\ out[i].payload.hostId = lastEvent.userId

\* C12: a relayed signal goes only to the endpoint recorded for the
\* addressed user; for a user that is not in the roster nothing is emitted,
\* and in both cases the store is left as it was.
SignalToRecordedEndpointOrDropped ==
  [][lastEvent'.type = "signal" =>
       LET r == lastEvent'.room
           to == lastEvent'.to
       IN /\ rooms' = rooms
          /\ sockets' = sockets
          /\ reported' = reported
          /\ chatTotal' = chatTotal
          /\ IF r \in DOMAIN rooms /\ HasUser(rooms[r].users, to)
               THEN LET usr == rooms[r].users[IndexOfUser(rooms[r].users, to)]
                    IN /\ Len(out') = 1
                       /\ out'[1].event = "signal"
                       /\ out'[1].scope = "socket"
                       /\ out'[1].to = usr.socketId
                       /\ out'[1].rcpt \subseteq {usr.socketId}
               ELSE out' = <<>>]_vars

\* a signal for a user that is not in the roster of a room with members
\* has just been dropped
WitnessSignalDropped ==
  /\ lastEvent.type = "signal"
  /\ lastEvent.room \in DOMAIN rooms
  /\ ~HasUser(rooms[lastEvent.room].users, lastEvent.to)
  /\ InRoom(sockets, lastEvent.room) \ {lastEvent.socket} # {}
  /\ out = <<>>

\* C13: a user's connection quality is never reset: while the user stays in
\* the roster, a stored quality record stays and its report count does not
\* drop, also across a re-join under the same user id.
QualityNeverReset ==
  [][\A r \in DOMAIN rooms \cap DOMAIN rooms' :
       \A i \in 1..Len(rooms[r].users) :
         LET usr == rooms[r].users[i]
         IN ("connectionQuality" \in DOMAIN usr /\ HasUser(rooms'[r].users, usr.id)) =>
              LET after == rooms'[r].users[IndexOfUser(rooms'[r].users, usr.id)]
              IN /\ "connectionQuality" \in DOMAIN after
                 /\ after.connectionQuality.reportCount >= usr.connectionQuality.reportCount]_vars

\* the corrective seeks of the controller's last callback
CorrectiveSeeks ==
  {i \in 1..Len(cout) : cout[i].event = "seekTo" /\ cout[i].kind = "corrective"}

\* playedSeconds plus the time since the stamp, at most 2 s, while playing
CompensatedTarget(vs, t) ==
  IF vs.isPlaying
    THEN vs.playedSeconds +
         (IF t - vs.serverTimestamp < 20 THEN t - vs.serverTimestamp ELSE 20)
    ELSE vs.playedSeconds

\* C14: every corrective seek goes to playedSeconds plus the time since the
\* state's server stamp, capped at 2 s, when the state is playing, and to
\* playedSeconds itself when it is paused; a playing state at 120 s read
\* 0.4 s after its stamp gives 120.4 s.
SeekTargetIsCompensated ==
  \A i \in CorrectiveSeeks :
    LET vs == ctl.videoState
    IN  /\ cout[i].target = CompensatedTarget(vs, cnow)
        /\ cout[i].target - vs.playedSeconds <= 20
        /\ ~vs.isPlaying => cout[i].target = vs.playedSeconds
        /\ (vs.isPlaying /\ vs.playedSeconds = 1200 /\ cnow = vs.serverTimestamp + 4)
             => cout[i].target = 1204

WitnessCompensatedSeek ==
  /\ cEvent.type = "video-state"
  /\ ctl.videoState.isPlaying
  /\ ctl.videoState.playedSeconds = 1200
  /\ cnow = ctl.videoState.serverTimestamp + 4
  /\ \E i \in CorrectiveSeeks : cout[i].target = 1204

ForcedSeekOnHugeDrift ==
  (cEvent.effectRan /\ Abs(cEvent.currentTime - ctl.videoState.playedSeconds) > 20)
    => CorrectiveSeeks # {}

\* C16: when the sync effect runs with the local position more than 2 s from
\* the raw position, the author of the state does not matter: it seeks
\* exactly if the local position is more than 0.3 s from the compensated
\* target.
HugeDriftOverridesAuthor ==
  (cEvent.effectRan /\ Abs(cEvent.currentTime - ctl.videoState.playedSeconds) > 20)
    => (CorrectiveSeeks # {}
          <=> Abs(cEvent.currentTime - CompensatedTarget(ctl.videoState, cnow)) > 3)

WitnessSelfAuthoredForcedSeek ==
  /\ cEvent.effectRan
  /\ ctl.videoState.updatedBy = Me
  /\ Abs(cEvent.currentTime - ctl.videoState.playedSeconds) > 20
  /\ CorrectiveSeeks # {}

\* C17: no callback that runs while the local player is buffering issues a
\* corrective seek.
NoSeekWhileBuffering == cEvent.buffering => CorrectiveSeeks = {}

\* the video-state events the controller's last callback sent, by kind
Sent(kinds) ==
  {i \in 1..Len(cout) : cout[i].event = "video-state" /\ cout[i].kind \in kinds}

\* C18: a play, pause, seek or periodic video-state event is never sent less
\* than 1 s after a corrective seek, whichever corrective seek was the last.
NoEmissionDuringCooldown ==
  Sent({"play", "pause", "seek", "periodic"}) # {} =>
    (chist.lastSeekAt = -1 \/ cnow - chist.lastSeekAt >= 10)

\* C19: a periodic position broadcast is sent only by a controller whose
\* participant is host, only while the state it holds is playing, and more
\* than 1.5 s after the periodic broadcast before it.
PeriodicOnlyFromPlayingHostSpaced ==
  /\ Sent({"periodic"}) # {} =>
       /\ ctl.hostId = Me
       /\ ctl.videoState # NoState
       /\ ctl.videoState.isPlaying
       /\ Cardinality(Sent({"periodic"})) = 1
       /\ chist.lastPeriodicAt = cnow
  /\ chist.prevPeriodicAt # -1 => chist.lastPeriodicAt - chist.prevPeriodicAt > 15

WitnessSecondBroadcast ==
  /\ Sent({"periodic"}) # {}
  /\ chist.prevPeriodicAt # -1

\* participant u has sent p an offer that is not answered yet
OfferOutstanding(u, p) ==
  p \in DOMAIN pm[u].pcs /\ pm[u].pcs[p].sig = "have-local-offer"

AnswerAppliedOnlyWhenAwaited ==
  [][pmEvent'.type = "answer" =>
       LET u == pmEvent'.user
           p == pmEvent'.peer
       IN  /\ pmEvent'.sent = {}
           /\ \A v \in PeerIds \ {u} : pm'[v] = pm[v]
           /\ IF p \in DOMAIN pm[u].pcs /\ pm[u].pcs[p].sig = "have-local-offer"
                THEN pm'[u] = [pm[u] EXCEPT !.pcs[p].sig = "stable"]
                ELSE pm'[u] = pm[u]]_vars

WitnessStaleAnswerDiscarded ==
  /\ pmEvent.type = "answer"
  /\ ~pmEvent.changed
  /\ pmEvent.peer \in DOMAIN pm[pmEvent.user].pcs
  /\ pm[pmEvent.user].pcs[pmEvent.peer].sig = "stable"

\* C22: a user-disconnected event for p leaves no connection, no remote
\* stream and no connectionStates entry for p, whatever the connection's
\* state was; and a connection to p starts to be tracked only when an
\* offer from p is handled or a call to p is started.
DepartureRemovesConnection ==
  [][/\ pmEvent'.type = "user-disconnected" =>
         LET u == pmEvent'.user
             p == pmEvent'.peer
         IN  /\ p \notin DOMAIN pm'[u].pcs
             /\ p \notin pm'[u].remote
             /\ p \notin pm'[u].connStates
             /\ \A q \in DOMAIN pm[u].pcs \ {p} :
                  q \in DOMAIN pm'[u].pcs /\ pm'[u].pcs[q] = pm[u].pcs[q]
     /\ \A u \in PeerIds, p \in PeerIds :
          (p \notin DOMAIN pm[u].pcs /\ p \in DOMAIN pm'[u].pcs) =>
            /\ pmEvent'.user = u
            /\ pmEvent'.peer = p
            /\ pmEvent'.type \in {"offer", "call", "reconnect-resumed"}]_vars

WitnessDepartureOfStreamingPeer ==
  /\ pmEvent.type = "user-disconnected"
  /\ pmEvent.changed
  /\ pmEvent.peer \in pm[pmEvent.user].shown
  /\ pmEvent.peer \notin pm[pmEvent.user].remote

\* C23: a reconnect timer fires only for a peer whose connection is still
\* tracked: closing and removing the connection has released the timer.
NoTimerFiresAfterClose ==
  [][pmEvent'.type = "reconnect" =>
       pmEvent'.peer \in DOMAIN pm[pmEvent'.user].pcs]_vars

\* C24: never more than one reconnect timer is live for a peer, and after
\* a health check tick that saw the page visible and the connection to a
\* peer failed or disconnected exactly one is.
OneTimerPerObservedPeer ==
  [][/\ \A u \in PeerIds, p \in PeerIds : pm'[u].armed[p] <= 1
     /\ pmEvent'.type = "sweep" =>
          LET u == pmEvent'.user
          IN  \A p \in DOMAIN pm[u].pcs :
                (pm[u].visible /\ pm[u].pcs[p].conn \in {"failed", "disconnected"})
                  => pm'[u].armed[p] = 1]_vars


\* C25: a resume sweep force-reconnects every tracked connection that is
\* reported connected and has no live inbound track, whether or not a
\* remote stream of that peer was recorded before.
ResumeReconnectsEveryDeadConnection ==
  [][pmEvent'.type = "resume-sweep" =>
       \A p \in DOMAIN pmEvent'.before :
         (pmEvent'.before[p].conn = "connected" /\ ~pmEvent'.before[p].live)
           => /\ p \in pmEvent'.reconnected
              /\ p \notin DOMAIN pm'[pmEvent'.user].pcs]_vars


\* C26: once the component is torn down, no connection is tracked and no
\* reconnect timer is pending, and no later step of the torn-down hook
\* opens a connection or sends an offer.
NothingAfterTeardown ==
  \A u \in PeerIds :
    ~pm[u].mounted =>
      /\ DOMAIN pm[u].pcs = {}
      /\ \A p \in PeerIds : pm[u].armed[p] = 0
      /\ pmEvent.user = u => pmEvent.sent = {}


\* the events of one remote peer, and what a manager holds for a peer y
PeerEvents ==
  {"offer", "answer", "answered", "answer-failed", "call", "state",
   "user-disconnected", "track", "track-ended", "reconnect", "reconnect-resumed"}

SameForPeer(u, y) ==
  /\ (y \in DOMAIN pm'[u].pcs) = (y \in DOMAIN pm[u].pcs)
  /\ y \in DOMAIN pm[u].pcs => pm'[u].pcs[y] = pm[u].pcs[y]
  /\ (y \in pm'[u].remote) = (y \in pm[u].remote)
  /\ (y \in pm'[u].connStates) = (y \in pm[u].connStates)
  /\ (y \in pm'[u].timers) = (y \in pm[u].timers)
  /\ (y \in pm'[u].waits) = (y \in pm[u].waits)
  /\ pm'[u].armed[y] = pm[u].armed[y]

\* C27: a step that handles an event of peer X (a signal from X, X's
\* departure, a connection-state or remote-stream change of X, a reconnect
\* of X), the effect re-run that the event causes included, leaves the
\* connection, the tracked state and the pending timer of every other
\* peer Y as they were.
PeersAreIndependent ==
  [][/\ pmEvent'.type \in PeerEvents =>
          \A y \in PeerIds \ {pmEvent'.peer} : SameForPeer(pmEvent'.user, y)
     /\ pmEvent'.type = "effect" =>
          \A y \in PeerIds \ pmEvent'.causes : SameForPeer(pmEvent'.user, y)]_vars


\* C28: last writer per field wins.  A step that accepts a patch stores,
\* for every field other than the two timestamps, the patch's value if the
\* patch has the field and the value stored before otherwise, and no other
\* step changes a stored field; hence each stored field is the value of the
\* latest received patch that had it, or the initial value, and two patches
\* with no common field give the same stored fields in either order.
LastWriterPerFieldWins ==
  /\ [][\A r \in DOMAIN rooms \cap DOMAIN rooms' :
          LET old   == rooms[r].videoState
              new   == rooms'[r].videoState
              patch == lastEvent'.videoState
          IN  IF lastEvent'.type = "video-state" /\ lastEvent'.room = r
                THEN /\ DOMAIN new = DOMAIN old \cup DOMAIN patch
                     /\ \A k \in DOMAIN new \ {"lastUpdated", "serverTimestamp"} :
                          new[k] = IF k \in DOMAIN patch THEN patch[k] ELSE old[k]
                ELSE SansTimestamps(new) = SansTimestamps(old)]_vars
  /\ [](\A r \in DOMAIN rooms : \A p \in Patches, q \in Patches :
          DOMAIN p \cap DOMAIN q \subseteq {"lastUpdated", "serverTimestamp"} =>
            SansTimestamps(MergeVideoState(
                MergeVideoState(rooms[r].videoState, p, now), q, now))
              = SansTimestamps(MergeVideoState(
                  MergeVideoState(rooms[r].videoState, q, now), p, now)))

\* a patch without isPlaying has just been stored in a room that an earlier
\* patch had set playing: the position is the new patch's, the rest stays
WitnessFieldKeptFromEarlierPatch ==
  /\ lastEvent.type = "video-state"
  /\ lastEvent.room \in DOMAIN rooms
  /\ lastEvent.videoState = [playedSeconds |-> 4]
  /\ rooms[lastEvent.room].videoState.isPlaying
  /\ rooms[lastEvent.room].videoState.updatedBy = 1
  /\ rooms[lastEvent.room].videoState.playedSeconds = 4


\* C29: when the host leaves a room in which members remain, the new host
\* is the remaining member who first joined earliest; a re-join of a user
\* id that is in the roster changes no member's position.
EarliestJoinerSucceeds ==
  [][\A r \in DOMAIN rooms \cap DOMAIN rooms' :
       /\ (/\ lastEvent'.type = "disconnecting"
           /\ rooms[r].hostId \notin UserIdsOf(rooms'[r].users))
            => rooms'[r].hostId = arrivals'[r][1]
       /\ (/\ lastEvent'.type = "join-room"
           /\ lastEvent'.room = r
           /\ lastEvent'.rejoin)
            => /\ arrivals'[r] = arrivals[r]
               /\ \A i \in 1..Len(rooms[r].users) :
                    rooms'[r].users[i].id = rooms[r].users[i].id]_vars


\* C30: an offer from peer p reuses a tracked connection to p that is
\* neither closed nor failed and otherwise puts a fresh one in its place;
\* an answer goes out only to p, once the descriptions are applied; when
\* applying a description fails no answer goes out and the connection to p
\* stays tracked.
OfferReusesOrReplaces ==
  [][LET u == pmEvent'.user
         p == pmEvent'.peer
     IN  /\ (pmEvent'.type = "offer" /\ p # u) =>
              /\ p \in DOMAIN pm'[u].pcs
              /\ pmEvent'.sent = {}
              /\ IF p \in DOMAIN pm[u].pcs /\ pm[u].pcs[p].conn \notin {"closed", "failed"}
                   THEN /\ pm'[u].pcs[p].conn = pm[u].pcs[p].conn
                        /\ pm'[u].pcs[p].live = pm[u].pcs[p].live
                        /\ pm'[u].pcs[p].sig \in {pm[u].pcs[p].sig, "have-remote-offer"}
                   ELSE /\ pm'[u].pcs[p].conn = "new"
                        /\ ~pm'[u].pcs[p].live
                        /\ pm'[u].pcs[p].sig \in {"stable", "have-remote-offer"}
         /\ pmEvent'.type = "answer-failed" =>
              pmEvent'.sent = {} /\ p \in DOMAIN pm'[u].pcs
         /\ pmEvent'.type = "answered" => pmEvent'.sent = {SignalMsg(u, p, "answer")}
         /\ \A msg \in wire' \ wire :
              (msg.type = "answer" /\ pmEvent'.type # "sent") =>
                pmEvent'.type = "answered" /\ msg.from = u /\ msg.to = p]_vars

\* an offer has met a connection with a local offer of its own: the
\* description was rejected, the connection is the one tracked before and
\* nothing was sent
WitnessRejectedOfferKeepsConnection ==
  /\ pmEvent.type = "offer"
  /\ ~pmEvent.changed
  /\ pmEvent.sent = {}
  /\ pmEvent.peer \in DOMAIN pm[pmEvent.user].pcs
  /\ pm[pmEvent.user].pcs[pmEvent.peer].sig = "have-local-offer"
  /\ pm[pmEvent.user].pcs[pmEvent.peer].conn = "connected"


\* C31: a reconnect of peer p first cancels p's pending timer and tears
\* down the connection to p; after its wait it sends an offer only from
\* the side whose id sorts lower, and on the other side it ends with no
\* connection to p tracked and nothing sent.
ReconnectTearsDownThenReoffers ==
  [][LET u == pmEvent'.user
         p == pmEvent'.peer
     IN  /\ pmEvent'.type = "reconnect" =>
              /\ p \notin DOMAIN pm'[u].pcs
              /\ pm'[u].armed[p] = 0
              /\ p \notin pm'[u].timers
              /\ pmEvent'.sent = {}
         /\ pmEvent'.type = "reconnect-resumed" =>
              /\ pmEvent'.sent \subseteq {SignalMsg(u, p, "offer")}
              /\ pmEvent'.sent # {} => StrLess(u, p)
              /\ ~StrLess(u, p) => p \notin DOMAIN pm'[u].pcs]_vars


\* C31 as amended: the reconnect begins as stated; after its wait the
\* lower-id side alone may send an offer, and on the higher-id side the
\* step sends nothing and opens nothing: a connection to p is tracked at
\* its end only if an offer from p arrived during the wait.
ReconnectReoffersFromLowerIdOnly ==
  [][LET u == pmEvent'.user
         p == pmEvent'.peer
     IN  /\ pmEvent'.type = "reconnect" =>
              /\ p \notin DOMAIN pm'[u].pcs
              /\ pm'[u].armed[p] = 0
              /\ p \notin pm'[u].timers
              /\ pmEvent'.sent = {}
         /\ pmEvent'.type = "reconnect-resumed" =>
              /\ pmEvent'.sent \subseteq {SignalMsg(u, p, "offer")}
              /\ pmEvent'.sent # {} => StrLess(u, p)
              /\ ~StrLess(u, p) =>
                   /\ pmEvent'.sent = {}
                   /\ pm'[u] = [pm[u] EXCEPT !.waits = @ \ {p}]]_vars

\* the higher-id side ends a reconnect during whose wait the peer's offer
\* arrived: the connection that offer opened is tracked, nothing was sent
WitnessOfferArrivedDuringWait ==
  /\ pmEvent.type = "reconnect-resumed"
  /\ ~StrLess(pmEvent.user, pmEvent.peer)
  /\ pmEvent.sent = {}
  /\ pmEvent.peer \in DOMAIN pm[pmEvent.user].pcs


\* C32: while the page is visible, a tracked connection whose state
\* becomes failed or disconnected is in the end reconnected: it is torn
\* down and the lower-id side sends the peer a new offer from a reconnect.
BadConnectionIsReconnected ==
  \A p \in Peers :
    (/\ pmEvent.type = "state"
     /\ pmEvent.user = Self
     /\ pmEvent.peer = p
     /\ pm[Self].visible
     /\ \/ p \notin DOMAIN pm[Self].pcs
        \/ pm[Self].pcs[p].conn = "disconnected")
      ~> (/\ pmEvent.type = "reconnect-resumed"
          /\ pmEvent.user = Self
          /\ pmEvent.peer = p
          /\ pmEvent.sent # {})


\* C33: no programmatic seek of the local player, corrective or initial,
\* makes the controller send a video-state update: the onSeek callback
\* that answers it emits nothing.
NoEmissionFromProgrammaticSeek ==
  cEvent.type = "seeked" => Sent({"play", "pause", "seek", "periodic", "url"}) = {}


\* C34: a sync-correction that reaches a ready, non-buffering player whose
\* position is more than 0.3 s from the corrected position makes it seek
\* to the corrected position at once, whoever wrote the state it holds.
CorrectionAlwaysSeeks ==
  (/\ cEvent.type = "sync-correction"
   /\ cEvent.effectRan
   /\ ~cEvent.buffering
   /\ Abs(cEvent.currentTime - ctl.videoState.playedSeconds) > SyncThresholdTenths)
    => \E i \in CorrectiveSeeks : cout[i].target = ctl.videoState.playedSeconds


\* C35: whenever the reconnect-timer table has an entry for a peer, the
\* timer of that entry is live: it has neither fired nor been cleared, so
\* no health check tick of a mounted hook finds a dead entry.
TableEntryMeansLiveTimer ==
  \A u \in PeerIds, p \in PeerIds :
    (pm[u].mounted /\ p \in pm[u].timers) => pm[u].armed[p] > 0


\* C36: a reconnect timer that fires for a peer whose connection is in the
\* connected state (it recovered, or a new offer of the peer replaced it)
\* leaves that connection in place.
TimerSparesHealthyConnection ==
  [][\A u \in PeerIds, p \in PeerIds :
       (/\ pmEvent'.type = "reconnect" /\ pmEvent'.user = u /\ pmEvent'.peer = p
        /\ p \in DOMAIN pm[u].pcs
        /\ pm[u].pcs[p].conn = "connected")
         => (p \in DOMAIN pm'[u].pcs /\ pm'[u].pcs[p] = pm[u].pcs[p])]_vars


\* C38: a position report that names a user id absent from the roster of an
\* existing room is handled without a fault: the server is still running
\* after the handler.
UnknownReporterIsHandled ==
  (/\ lastEvent.type = "position-report"
   /\ lastEvent.room \in DOMAIN rooms
   /\ ~HasUser(rooms[lastEvent.room].users, lastEvent.userId))
    => ~crashed

\* the sockets of the users in a roster
SocketsOf(users) == {users[i].socketId : i \in 1..Len(users)}

\* C39: a video-state or chat-message event changes a room's stored playback
\* state or chat log only when the sending socket is the socket of a user in
\* that room's roster.
OnlyMembersChangeRoom ==
  [][\A r \in RoomIds :
       (/\ lastEvent'.type \in {"video-state", "chat-message"}
        /\ lastEvent'.room = r
        /\ r \in DOMAIN rooms
        /\ r \in DOMAIN rooms'
        /\ \/ rooms'[r].videoState # rooms[r].videoState
           \/ rooms'[r].messages # rooms[r].messages)
         => lastEvent'.socket \in SocketsOf(rooms[r].users)]_vars


\* C40: no roster entry outlives its socket: every room in the store has
\* been joined by a socket that is still connected, and every entry of its
\* roster names a socket that is still connected.
NoEntryOutlivesItsSocket ==
  \A r \in DOMAIN rooms :
    /\ \E s \in Sockets : sockets[s].status = "open" /\ r \in Range(sockets[s].rooms)
    /\ \A s \in SocketsOf(rooms[r].users) : sockets[s].status = "open"


\* C37: when the room's stored position is the target of a seek by the
\* non-host participant and the server then handles a periodic position
\* broadcast the host emitted without having applied that seek, the stored
\* position stays the seek target.
SeekSurvivesStalePeriodic ==
  [][(/\ 1 \in DOMAIN rooms
      /\ rooms[1].hostId = Me
      /\ rooms[1].videoState.updatedBy = Other
      /\ rooms[1].videoState.playedSeconds = SeekPatch.playedSeconds
      /\ ctl.hostId = Me
      /\ ctl.videoState # NoState
      /\ ctl.videoState.playedSeconds # SeekPatch.playedSeconds
      /\ \E i \in 1..Len(cout) : cout[i].event = "video-state" /\ cout[i].kind = "periodic"
      /\ lastEvent'.type = "video-state"
      /\ lastEvent'.socket = Me
      /\ cout' # cout)
       => rooms'[1].videoState.playedSeconds = SeekPatch.playedSeconds]_vars

====
